---- MODULE Spec2Model ----
(***************************************************************************)
(* Elliott Wave analyzer: MonoWave chains, rule gate, probability scorer,  *)
(* per-start-index search (EnhancedWaveAnalyzer) and the whole-series      *)
(* labeler with its overlap policies (HistoricalWaveLabeler).              *)
(*                                                                         *)
(* Numbers.  Prices and indices are integers.  Python floats are modelled  *)
(* as exact rationals: a ratio a/b is carried as the pair (a, b) and every *)
(* comparison with a decimal literal is cross-multiplied.  Scores are kept *)
(* in the unit the code rounds them to:                                    *)
(*   match score / quality   1/10000        (round(x, 4))                  *)
(*   sub-scores, probability 1/100 percent  (round(x, 2))                  *)
(*   unrounded overall_prob  1/1000 percent                                *)
(* round() is round-half-to-even on the exact value.  A binary float that  *)
(* sits one ulp off an exact decimal tie or an exact threshold (such as    *)
(* abs(0.4 - 0.3) > 0.1) can fall on the other side in the program; the    *)
(* properties below do not depend on which side such a value falls.        *)
(***************************************************************************)
EXTENDS Integers, Sequences, FiniteSets, TLC

\* None, in positions that otherwise hold an index or a price (never negative)
None == -1

Abs(x) == IF x < 0 THEN -x ELSE x
Min2(a, b) == IF a <= b THEN a ELSE b
Max2(a, b) == IF a >= b THEN a ELSE b

\* round(n / d) for n >= 0, d > 0, ties to the even integer
RoundDiv(n, d) ==
    LET q == n \div d
        r == n % d
    IN  IF 2 * r < d THEN q
        ELSE IF 2 * r > d THEN q + 1
        ELSE IF q % 2 = 0 THEN q ELSE q + 1

RECURSIVE GCD(_, _)
GCD(a, b) == IF b = 0 THEN a ELSE GCD(b, a % b)

RECURSIVE MulDivMod(_, _, _)
\* <<q, m>> with k * r = q * d + m and 0 <= m < d, for 0 <= r < d, by doubling:
\* no intermediate value exceeds 2 * d
MulDivMod(k, r, d) ==
    IF k = 0 THEN <<0, 0>>
    ELSE LET h == MulDivMod(k \div 2, r, d)
             q2 == IF 2 * h[2] >= d THEN 2 * h[1] + 1 ELSE 2 * h[1]
             m2 == IF 2 * h[2] >= d THEN 2 * h[2] - d ELSE 2 * h[2]
         IN  IF k % 2 = 0 THEN <<q2, m2>>
             ELSE IF m2 + r >= d THEN <<q2 + 1, m2 + r - d>>
             ELSE <<q2, m2 + r>>

\* round(k * n / d) for n >= 0, d > 0 and 0 <= k <= 10000, ties to the even integer
RoundFrac(k, n, d) ==
    IF n <= 200000 THEN RoundDiv(k * n, d)
    ELSE LET h == MulDivMod(k, n % d, d)
             q == k * (n \div d) + h[1]
         IN  IF 2 * h[2] < d THEN q
             ELSE IF 2 * h[2] > d THEN q + 1
             ELSE IF q % 2 = 0 THEN q ELSE q + 1

RECURSIVE SumRange(_, _, _)
\* s[a] + ... + s[b], by halves
SumRange(s, a, b) ==
    IF a > b THEN 0
    ELSE IF a = b THEN s[a]
    ELSE SumRange(s, a, (a + b) \div 2) + SumRange(s, ((a + b) \div 2) + 1, b)

SumSeq(s) == SumRange(s, 1, Len(s))

RECURSIVE MinSeq(_)
MinSeq(s) == IF Len(s) = 1 THEN s[1] ELSE Min2(s[1], MinSeq(Tail(s)))

RECURSIVE SelectSeqIdx(_, _)
\* the subsequence of s at the (increasing) index sequence idxs
SelectSeqIdx(s, idxs) ==
    IF idxs = <<>> THEN <<>> ELSE <<s[Head(idxs)]>> \o SelectSeqIdx(s, Tail(idxs))

(***************************************************************************)
(* MonoWave: one monotonic swing.  kind is the class (MonoWaveUp /         *)
(* MonoWaveDown); length and duration are its properties.                  *)
(***************************************************************************)
WaveLength(w) == Abs(w.high - w.low)
WaveDuration(w) == w.idx_end - w.idx_start
IsUp(w) == w.kind = "up"

(***************************************************************************)
(* FibonacciAnalyzer.  Expected ratios are in thousandths.                 *)
(***************************************************************************)
TOLERANCE_PCT == 5

\* one expected ratio e against actual = num / den (den > 0, e > 0):
\* relative deviation = |num/den - e/1000| / (e/1000) = dev / (e * den)
RatioDev(num, den, e) == Abs(1000 * num - e * den)

\* relative_deviation <= TOLERANCE, i.e. 100 * dev <= TOLERANCE_PCT * e * den
RatioMatches(num, den, e) ==
    RatioDev(num, den, e) <= TOLERANCE_PCT * ((e * den) \div 100)
                             + (TOLERANCE_PCT * ((e * den) % 100)) \div 100

RatioScore_coarse(num, den, e) ==
    LET g == GCD(RatioDev(num, den, e), e * den)
        a == RatioDev(num, den, e) \div g
        b == (e * den) \div g
    IN  100 * RoundFrac(100, TOLERANCE_PCT * b - 100 * a, TOLERANCE_PCT * b)

\* score = 1 - relative_deviation / TOLERANCE, rounded to 4 decimals
\* on the relative deviation a / b in lowest terms
RatioScore(num, den, e) ==
    LET g == GCD(RatioDev(num, den, e), e * den)
        a == RatioDev(num, den, e) \div g
        b == (e * den) \div g
    IN  RoundFrac(10000, TOLERANCE_PCT * b - 100 * a, TOLERANCE_PCT * b)

RECURSIVE InsertByScoreDesc(_, _)
\* sorted(..., key=score, reverse=True) is stable: m goes after equal scores
InsertByScoreDesc(sorted, m) ==
    IF sorted = <<>> THEN <<m>>
    ELSE IF Head(sorted).score >= m.score
         THEN <<Head(sorted)>> \o InsertByScoreDesc(Tail(sorted), m)
         ELSE <<m>> \o sorted

RECURSIVE SortByScoreDesc(_)
SortByScoreDesc(s) ==
    IF s = <<>> THEN <<>>
    ELSE InsertByScoreDesc(SortByScoreDesc(SubSeq(s, 1, Len(s) - 1)), s[Len(s)])

RECURSIVE MatchesOf(_, _, _)
MatchesOf(num, den, expected) ==
    IF expected = <<>> THEN <<>>
    ELSE LET e == Head(expected)
             rest == MatchesOf(num, den, Tail(expected))
         IN  IF RatioMatches(num, den, e)
             THEN <<[fibonacci_ratio |-> e,
                     relative_deviation |-> RoundFrac(10000, RatioDev(num, den, e), e * den),
                     score |-> RatioScore(num, den, e)]>> \o rest
             ELSE rest

_find_matching_ratios(num, den, expected) ==
    SortByScoreDesc(MatchesOf(num, den, expected))

_calculate_quality_score(matches) ==
    IF matches = <<>> THEN 0
    ELSE Min2(10000, matches[1].score + Min2(2000, Len(matches) * 500))

RatioQuality(num, den, expected) ==
    _calculate_quality_score(_find_matching_ratios(num, den, expected))

analyze_wave_2_retracement(wave1, wave2) ==
    IF WaveLength(wave1) = 0 THEN 0
    ELSE RatioQuality(WaveLength(wave2), WaveLength(wave1), <<382, 500, 618, 786, 854>>)

analyze_wave_3_extension(wave1, wave2, wave3) ==
    IF WaveLength(wave1) = 0 THEN 0
    ELSE RatioQuality(WaveLength(wave3), WaveLength(wave1), <<1000, 1618, 2000, 2618, 3236>>)

analyze_wave_4_retracement(wave3, wave4) ==
    IF WaveLength(wave3) = 0 THEN 0
    ELSE RatioQuality(WaveLength(wave4), WaveLength(wave3), <<146, 236, 382, 500>>)

analyze_wave_5_projection_unmatched(wave1, wave3, wave4, wave5) == <<0>>

\* the qualities of the sub-methods that apply; overall_quality is their mean
analyze_wave_5_projection(wave1, wave3, wave4, wave5) ==
    LET l5 == WaveLength(wave5)
        d13 == IF IsUp(wave1) THEN wave3.high - wave1.low ELSE wave1.high - wave3.low
        m1 == IF WaveLength(wave1) > 0
              THEN <<RatioQuality(l5, WaveLength(wave1), <<618, 1000, 1618>>)>> ELSE <<>>
        m2 == IF d13 > 0
              THEN <<RatioQuality(l5, d13, <<382, 618, 1000>>)>> ELSE <<>>
        m3 == IF WaveLength(wave4) > 0
              THEN <<RatioQuality(l5, WaveLength(wave4), <<1236, 1382, 1618, 2000>>)>> ELSE <<>>
    IN  m1 \o m2 \o m3

analyze_corrective_abc(waveA, waveB, waveC) ==
    IF WaveLength(waveA) > 0
    THEN <<RatioQuality(WaveLength(waveB), WaveLength(waveA), <<382, 500, 618, 786, 854>>),
           RatioQuality(WaveLength(waveC), WaveLength(waveA), <<618, 1000, 1236, 1618, 2618>>)>>
    ELSE <<>>

FibRaise == [raised |-> TRUE, overall_fibonacci_score |-> None, fibonacci_confirmations |-> None]

analyze_impulse_wave_pattern(waves) ==
    IF Len(waves) # 5 THEN FibRaise
    ELSE LET q2 == analyze_wave_2_retracement(waves[1], waves[2])
             q3 == analyze_wave_3_extension(waves[1], waves[2], waves[3])
             q4 == analyze_wave_4_retracement(waves[3], waves[4])
             p5 == analyze_wave_5_projection(waves[1], waves[3], waves[4], waves[5])
             k  == Len(p5)
             s5 == SumSeq(p5)
         IN  [raised |-> FALSE,
              overall_fibonacci_score |->
                  IF k = 0 THEN RoundDiv(q2 + q3 + q4, 4)
                  ELSE RoundDiv(k * (q2 + q3 + q4) + s5, 4 * k),
              fibonacci_confirmations |->
                  (IF q2 >= 7000 THEN 1 ELSE 0) + (IF q3 >= 7000 THEN 1 ELSE 0)
                  + (IF q4 >= 7000 THEN 1 ELSE 0)
                  + (IF k > 0 /\ s5 >= 7000 * k THEN 1 ELSE 0)]

analyze_corrective_pattern(waves) ==
    IF Len(waves) # 3 THEN FibRaise
    ELSE LET qs == analyze_corrective_abc(waves[1], waves[2], waves[3])
         IN  [raised |-> FALSE,
              overall_fibonacci_score |->
                  IF qs = <<>> THEN 0 ELSE RoundDiv(SumSeq(qs), Len(qs)),
              fibonacci_confirmations |->
                  Cardinality({i \in DOMAIN qs : qs[i] >= 7000})]

(***************************************************************************)
(* ProbabilityScorer.                                                      *)
(***************************************************************************)
\* lo/100 <= n/d <= hi/100 for a ratio n/d with d > 0
InBand(n, d, lo, hi) == lo * d <= 100 * n /\ 100 * n <= hi * d

\* "x / y if y > 0 else 0" as a fraction in lowest terms
RatioOrZero(x, y) == IF y > 0 THEN <<x \div GCD(x, y), y \div GCD(x, y)>> ELSE <<0, 1>>

\* the bucket (100 / 70 / 40) of a ratio against an ideal and an acceptable band
BandBucket(r, ideal, acceptable) ==
    IF InBand(r[1], r[2], ideal[1], ideal[2]) THEN 100
    ELSE IF InBand(r[1], r[2], acceptable[1], acceptable[2]) THEN 70
    ELSE 40

MeanScore(scores, dflt) ==
    IF scores = <<>> THEN dflt ELSE RoundDiv(100 * SumSeq(scores), Len(scores))

_score_impulse_rules(waves) ==
    LET wave1 == waves[1]
        wave2 == waves[2]
        wave3 == waves[3]
        wave4 == waves[4]
        wave5 == waves[5]
        r1 == IF IsUp(wave1) THEN wave2.low <= wave1.low ELSE wave2.high >= wave1.high
        r2 == WaveLength(wave3) < WaveLength(wave1) /\ WaveLength(wave3) < WaveLength(wave5)
        r3 == IF IsUp(wave1) THEN wave4.low <= wave1.high ELSE wave4.high >= wave1.low
        violations == (IF r1 THEN <<"Wave 2 retraced more than 100% of Wave 1">> ELSE <<>>)
                   \o (IF r2 THEN <<"Wave 3 is the shortest wave">> ELSE <<>>)
                   \o (IF r3 THEN <<"Wave 4 overlaps Wave 1 (not a diagonal)">> ELSE <<>>)
    IN  [score |-> IF Len(violations) = 0 THEN 100 ELSE 0,
         violations |-> violations,
         rules_checked |-> 3]

_score_corrective_rules(waves) ==
    LET waveA == waves[1]
        waveB == waves[2]
        waveC == waves[3]
        la == WaveLength(waveA)
        rB == ~IsUp(waveA) /\ la > 0 /\ 100 * WaveLength(waveB) > 140 * la
        rC == la > 0 /\ 100 * WaveLength(waveC) < 50 * la
        violations == (IF rB THEN <<"Wave B retracement too large">> ELSE <<>>)
                   \o (IF rC THEN <<"Wave C too short relative to Wave A">> ELSE <<>>)
    IN  [score |-> IF Len(violations) = 0 THEN 100 ELSE 0,
         violations |-> violations,
         rules_checked |-> 2]

_score_impulse_guidelines(waves) ==
    LET l1 == WaveLength(waves[1])
        l2 == WaveLength(waves[2])
        l3 == WaveLength(waves[3])
        l4 == WaveLength(waves[4])
        l5 == WaveLength(waves[5])
        g1 == IF l3 >= l1 /\ l3 >= l5 THEN 100
              ELSE IF 10 * l3 >= 9 * Max2(l1, l5) THEN 70
              ELSE 40
        g2 == BandBucket(RatioOrZero(l3, l1), <<150, 270>>, <<120, 320>>)
        r2 == RatioOrZero(l2, l1)
        r4 == RatioOrZero(l4, l3)
        diffn == Abs(r2[1] * r4[2] - r4[1] * r2[2])
        diffd == r2[2] * r4[2]
        g3 == IF 100 * diffn > 20 * diffd THEN 100
              ELSE IF 100 * diffn > 10 * diffd THEN 70
              ELSE 40
        g4 == IF 10 * l3 > 13 * l1
              THEN BandBucket(RatioOrZero(l5, l1), <<85, 115>>, <<70, 130>>)
              ELSE 50
        d2 == WaveDuration(waves[2])
        d4 == WaveDuration(waves[4])
        g5 == IF d2 > 0 /\ d4 > 0
              THEN <<IF Max2(d2, d4) <= 3 * Min2(d2, d4) THEN 100
                     ELSE IF Max2(d2, d4) <= 6 * Min2(d2, d4) THEN 70
                     ELSE 40>>
              ELSE <<>>
        guideline_scores == <<g1, g2, g3, g4>> \o g5
    IN  [score |-> MeanScore(guideline_scores, 0),
         guidelines_met |-> Cardinality({i \in DOMAIN guideline_scores : guideline_scores[i] >= 70}),
         total_guidelines |-> Len(guideline_scores)]

_score_corrective_guidelines(waves) ==
    LET la == WaveLength(waves[1])
        g1 == BandBucket(RatioOrZero(WaveLength(waves[3]), la), <<90, 170>>, <<60, 270>>)
        g2 == BandBucket(RatioOrZero(WaveLength(waves[2]), la), <<38, 80>>, <<20, 100>>)
        dA == WaveDuration(waves[1])
        dC == WaveDuration(waves[3])
        g3 == IF dA > 0
              THEN <<BandBucket(<<dC, dA>>, <<50, 200>>, <<30, 500>>)>>
              ELSE <<>>
        guideline_scores == <<g1, g2>> \o g3
    IN  [score |-> MeanScore(guideline_scores, 0),
         guidelines_met |-> Cardinality({i \in DOMAIN guideline_scores : guideline_scores[i] >= 70}),
         total_guidelines |-> Len(guideline_scores)]

\* _score_wave_structure with no score for the sizes and the durations
_score_wave_structure_unscored(waves) == [score |-> 0]

_score_wave_structure(waves) ==
    LET n == Len(waves)
        lengths == [i \in 1..n |-> WaveLength(waves[i])]
        min_length == MinSeq(lengths)
        total == SumSeq(lengths)
        \* min_length > avg_length * 0.15, avg_length = total / n
        s1 == IF 100 * n * min_length > 15 * total THEN 100
              ELSE IF 100 * n * min_length > 8 * total THEN 70
              ELSE 40
        durations == SelectSeq([i \in 1..n |-> WaveDuration(waves[i])], LAMBDA d : d > 0)
        m == Len(durations)
        s2 == IF m = 0 THEN <<>>
              ELSE <<IF 10 * m * MinSeq(durations) > SumSeq(durations) THEN 100
                     ELSE IF 20 * m * MinSeq(durations) > SumSeq(durations) THEN 70
                     ELSE 40>>
    IN  [score |-> MeanScore(<<s1>> \o s2, 5000)]

\* probability is the unrounded overall_prob, in 1/1000 percent
_categorize_probability(probability) ==
    IF probability >= 90000 THEN "VERY HIGH"
    ELSE IF probability >= 75000 THEN "HIGH"
    ELSE IF probability >= 60000 THEN "MODERATE"
    ELSE IF probability >= 50000 THEN "LOW"
    ELSE "VERY LOW"

\* weights, in percent
W_rules_compliance == 40
W_fibonacci_ratios == 30
W_guidelines == 20
W_structure_quality == 10

ScoreRaise ==
    [raised |-> TRUE, valid_pattern |-> None, overall_probability |-> None,
     overall_prob |-> None, category |-> None, rules_compliance |-> None,
     fibonacci_ratios |-> None, guidelines |-> None, structure_quality |-> None]

InvalidResult(rules_score) ==
    [raised |-> FALSE, valid_pattern |-> FALSE, overall_probability |-> 0,
     overall_prob |-> None, category |-> None, rules_compliance |-> rules_score,
     fibonacci_ratios |-> None, guidelines |-> None, structure_quality |-> None]

\* ValidResult with the weights of the Fibonacci and the guideline scores exchanged
ValidResult_exchanged(rules_score, fib, guidelines_score, structure_score) ==
    LET overall_prob ==
            (rules_score.score * 100 * W_rules_compliance
             + fib.overall_fibonacci_score * W_guidelines
             + guidelines_score.score * W_fibonacci_ratios
             + structure_score.score * W_structure_quality) \div 10
    IN  [raised |-> FALSE, valid_pattern |-> TRUE,
         overall_probability |-> RoundDiv(overall_prob, 10),
         overall_prob |-> overall_prob,
         category |-> _categorize_probability(overall_prob),
         rules_compliance |-> rules_score,
         fibonacci_ratios |-> fib.overall_fibonacci_score,
         guidelines |-> guidelines_score.score,
         structure_quality |-> structure_score.score]

\* sub-scores are in 1/100 percent, weights in percent: the weighted sum of
\* (score / 100) * weight, times 100, is in 1/1000 percent after / 10
ValidResult(rules_score, fib, guidelines_score, structure_score) ==
    LET overall_prob ==
            (rules_score.score * 100 * W_rules_compliance
             + fib.overall_fibonacci_score * W_fibonacci_ratios
             + guidelines_score.score * W_guidelines
             + structure_score.score * W_structure_quality) \div 10
    IN  [raised |-> FALSE, valid_pattern |-> TRUE,
         overall_probability |-> RoundDiv(overall_prob, 10),
         overall_prob |-> overall_prob,
         category |-> _categorize_probability(overall_prob),
         rules_compliance |-> rules_score,
         fibonacci_ratios |-> fib.overall_fibonacci_score,
         guidelines |-> guidelines_score.score,
         structure_quality |-> structure_score.score]

\* score_impulse_pattern without the return on a failed rule check
score_impulse_pattern_ungated(waves) ==
    IF Len(waves) # 5 THEN ScoreRaise
    ELSE ValidResult(_score_impulse_rules(waves), analyze_impulse_wave_pattern(waves),
                     _score_impulse_guidelines(waves), _score_wave_structure(waves))

score_impulse_pattern(waves) ==
    IF Len(waves) # 5 THEN ScoreRaise
    ELSE LET rules_score == _score_impulse_rules(waves)
         IN  IF rules_score.score < 100 THEN InvalidResult(rules_score)
             ELSE ValidResult(rules_score, analyze_impulse_wave_pattern(waves),
                              _score_impulse_guidelines(waves),
                              _score_wave_structure(waves))

\* score_corrective_pattern rejecting only the lists that are too short
score_corrective_pattern_atleast(waves) ==
    IF Len(waves) < 3 THEN ScoreRaise
    ELSE LET rules_score == _score_corrective_rules(waves)
         IN  IF rules_score.score < 100 THEN InvalidResult(rules_score)
             ELSE ValidResult(rules_score, analyze_corrective_pattern(SubSeq(waves, 1, 3)),
                              _score_corrective_guidelines(waves),
                              _score_wave_structure(waves))

score_corrective_pattern(waves) ==
    IF Len(waves) # 3 THEN ScoreRaise
    ELSE LET rules_score == _score_corrective_rules(waves)
         IN  IF rules_score.score < 100 THEN InvalidResult(rules_score)
             ELSE ValidResult(rules_score, analyze_corrective_pattern(waves),
                              _score_corrective_guidelines(waves),
                              _score_wave_structure(waves))

(***************************************************************************)
(* The price series of the analyzer (self.lows, self.highs), 0-based.      *)
(***************************************************************************)
\* price_den is the resolution of the prices: a price p of the series or of a supplied
\* wave stands for p / price_den in the source's float
VARIABLES lows, highs, closes, price_den

SeriesLen == Len(lows)
LowAt(i) == lows[i + 1]
HighAt(i) == highs[i + 1]

\* np.min(self.lows[a:b]) for a < b
MinLows(a, b) == CHOOSE m \in {LowAt(i) : i \in a..(b - 1)} : \A i \in a..(b - 1) : m <= LowAt(i)

\* self.lows[a:b].any()
AnyLows(a, b) == \E i \in a..(b - 1) : LowAt(i) # 0

(***************************************************************************)
(* MonoWave detector.  From idx_start the scan tracks the running extreme; *)
(* a candidate terminus is a running extreme past idx_start that the next  *)
(* candle fails to exceed.  skip = k accepts the (k+1)-th candidate.  The  *)
(* series running out first gives no end (None).                           *)
(***************************************************************************)
RECURSIVE ScanHigh(_, _, _, _, _)
ScanHigh(i, ext, ext_idx, fresh, skip) ==
    IF i >= SeriesLen THEN None
    ELSE IF HighAt(i) > ext THEN ScanHigh(i + 1, HighAt(i), i, TRUE, skip)
    ELSE IF fresh
         THEN IF skip = 0 THEN ext_idx ELSE ScanHigh(i + 1, ext, ext_idx, FALSE, skip - 1)
         ELSE ScanHigh(i + 1, ext, ext_idx, FALSE, skip)

RECURSIVE ScanLow(_, _, _, _, _)
ScanLow(i, ext, ext_idx, fresh, skip) ==
    IF i >= SeriesLen THEN None
    ELSE IF LowAt(i) < ext THEN ScanLow(i + 1, LowAt(i), i, TRUE, skip)
    ELSE IF fresh
         THEN IF skip = 0 THEN ext_idx ELSE ScanLow(i + 1, ext, ext_idx, FALSE, skip - 1)
         ELSE ScanLow(i + 1, ext, ext_idx, FALSE, skip)

MonoWaveUp(idx_start, skip, label) ==
    LET high_idx == ScanHigh(idx_start + 1, HighAt(idx_start), idx_start, FALSE, skip)
    IN  [kind |-> "up", label |-> label, idx_start |-> idx_start, idx_end |-> high_idx,
         low |-> LowAt(idx_start), low_idx |-> idx_start,
         high |-> IF high_idx = None THEN None ELSE HighAt(high_idx),
         high_idx |-> high_idx]

MonoWaveDown(idx_start, skip, label) ==
    LET low_idx == ScanLow(idx_start + 1, LowAt(idx_start), idx_start, FALSE, skip)
    IN  [kind |-> "down", label |-> label, idx_start |-> idx_start, idx_end |-> low_idx,
         high |-> HighAt(idx_start), high_idx |-> idx_start,
         low |-> IF low_idx = None THEN None ELSE LowAt(low_idx),
         low_idx |-> low_idx]

(***************************************************************************)
(* WaveOptionsGenerator: every skip tuple with components in 0..n, sorted  *)
(* by sum of components, ties lexicographically.                           *)
(***************************************************************************)
NImpulse == 1
NCorrection == 1

OptionLess(a, b) ==
    \/ SumSeq(a) < SumSeq(b)
    \/ /\ SumSeq(a) = SumSeq(b)
       /\ \E i \in DOMAIN a :
            /\ a[i] < b[i]
            /\ \A j \in 1..(i - 1) : a[j] = b[j]

\* the elements of S in ascending order
SortOptions(S) ==
    [r \in 1..Cardinality(S) |->
        CHOOSE x \in S : Cardinality({y \in S : OptionLess(y, x)}) = r - 1]

WaveOptionsGenerator5 == SortOptions([1..5 -> 0..NImpulse])
WaveOptionsGenerator3 == SortOptions([1..3 -> 0..NCorrection])

(***************************************************************************)
(* WavePattern.check_rule: the hard rules of the pattern type.             *)
(***************************************************************************)
check_rule_impulse(ws) ==
    /\ ws[2].low >= ws[1].low
    /\ ~(WaveLength(ws[3]) < WaveLength(ws[1]) /\ WaveLength(ws[3]) < WaveLength(ws[5]))
    /\ ws[4].low > ws[1].high

check_rule_correction(ws) ==
    /\ 100 * WaveLength(ws[2]) <= 140 * WaveLength(ws[1])
    /\ 100 * WaveLength(ws[3]) >= 50 * WaveLength(ws[1])

PatternIdxEnd(ws) == ws[Len(ws)].idx_end

(***************************************************************************)
(* TargetCalculator.  Target prices and distances are in 1/100 of a price  *)
(* unit (round(x, 2)); ratios in thousandths; weights in percent.          *)
(***************************************************************************)
RoundDivSigned(n, d) == IF n >= 0 THEN RoundDiv(n, d) ELSE -RoundDiv(-n, d)

ProjectedPrice_upward(base, length, ratio, sign) ==
    RoundDivSigned(100000 * base + 100 * ratio * length, 1000 * price_den)

\* round(base + sign * (length * ratio), 2)
ProjectedPrice(base, length, ratio, sign) ==
    RoundDivSigned(100000 * base + sign * 100 * ratio * length, 1000 * price_den)

Target(level, price, ratio, probability) ==
    [level |-> level, price |-> price, ratio |-> ratio, probability |-> probability]

RECURSIVE InsertTarget(_, _, _)
\* targets.sort(key=price, reverse=...) is stable in both directions
InsertTarget(sorted, t, reverse) ==
    IF sorted = <<>> THEN <<t>>
    ELSE IF (IF reverse THEN t.price > Head(sorted).price ELSE t.price < Head(sorted).price)
         THEN <<t>> \o sorted
    ELSE <<Head(sorted)>> \o InsertTarget(Tail(sorted), t, reverse)

RECURSIVE SortTargets(_, _)
SortTargets(ts, reverse) ==
    IF ts = <<>> THEN <<>>
    ELSE InsertTarget(SortTargets(SubSeq(ts, 1, Len(ts) - 1), reverse), ts[Len(ts)], reverse)

\* current_price as a price of the series; distance is target_price - current_price
\* in 1/(100 * price_den)
_calculate_magnitudes(current_price, targets, is_upward) ==
    [k \in DOMAIN targets |->
        LET distance == price_den * targets[k].price - 100 * current_price
        IN  [level |-> targets[k].level,
             target_price |-> targets[k].price,
             current_price |-> current_price,
             distance |-> RoundDivSigned(distance, price_den),
             distance_pct |-> IF current_price > 0
                              THEN RoundDivSigned(100 * distance, current_price)
                              ELSE 0,
             status |-> IF is_upward /\ distance > 0 THEN "pending"
                        ELSE IF ~is_upward /\ distance < 0 THEN "pending"
                        ELSE IF 1000 * Abs(distance) < 5 * 100 * current_price THEN "reached"
                        ELSE "exceeded",
             probability |-> targets[k].probability]]

calculate_wave_5_targets(wave1, wave2, wave3, wave4, current_price) ==
    LET is_upward == IsUp(wave1)
        sign == IF is_upward THEN 1 ELSE -1
        wave1_length == WaveLength(wave1)
        wave4_end == IF is_upward THEN wave4.low ELSE wave4.high
        wave1_to_3_distance == IF is_upward THEN wave3.high - wave1.low
                               ELSE wave1.high - wave3.low
        targets == SortTargets(
            <<Target("conservative", ProjectedPrice(wave4_end, wave1_length, 618, sign),
                     "0.618x Wave 1", 65),
              Target("equality", ProjectedPrice(wave4_end, wave1_length, 1000, sign),
                     "1.0x Wave 1", 75),
              Target("fibonacci_projection",
                     ProjectedPrice(wave4_end, wave1_to_3_distance, 618, sign),
                     "0.618x Wave 1-3", 60),
              Target("extended", ProjectedPrice(wave4_end, WaveLength(wave4), 1618, sign),
                     "1.618x Wave 4", 50)>>, is_upward)
    IN  [wave |-> "Wave 5",
         direction |-> IF is_upward THEN "upward" ELSE "downward",
         targets |-> targets,
         base_price |-> wave4_end,
         recommended_target |-> IF Len(targets) > 1 THEN targets[2] ELSE targets[1],
         current_price |-> current_price,
         magnitudes |-> IF current_price = None THEN None
                        ELSE _calculate_magnitudes(current_price, targets, is_upward)]

calculate_wave_C_targets(waveA, waveB, current_price) ==
    LET is_downward == ~IsUp(waveA)
        sign == IF is_downward THEN -1 ELSE 1
        waveA_length == WaveLength(waveA)
        waveB_end == IF is_downward THEN waveB.high ELSE waveB.low
        targets ==
            <<Target("short", ProjectedPrice(waveB_end, waveA_length, 618, sign),
                     "0.618x Wave A", 50),
              Target("equality", ProjectedPrice(waveB_end, waveA_length, 1000, sign),
                     "1.0x Wave A", 80),
              Target("extended", ProjectedPrice(waveB_end, waveA_length, 1618, sign),
                     "1.618x Wave A", 60),
              Target("very_extended", ProjectedPrice(waveB_end, waveA_length, 2618, sign),
                     "2.618x Wave A", 30)>>
    IN  [wave |-> "Wave C",
         direction |-> IF is_downward THEN "downward" ELSE "upward",
         targets |-> targets,
         base_price |-> waveB_end,
         recommended_target |-> targets[2],
         current_price |-> current_price,
         magnitudes |-> IF current_price = None THEN None
                        ELSE _calculate_magnitudes(current_price, targets, is_downward)]

(***************************************************************************)
(* EnhancedWaveAnalyzer.                                                   *)
(***************************************************************************)
\* the list of the five waves; False is the empty list (callers test `if waves:`)
_find_impulsive_wave(idx_start, wave_config) ==
    LET wave1 == MonoWaveUp(idx_start, wave_config[1], "1")
    IN  IF wave1.idx_end = None THEN <<>> ELSE
    LET wave2 == MonoWaveDown(wave1.idx_end, wave_config[2], "2")
    IN  IF wave2.idx_end = None THEN <<>> ELSE
    LET wave3 == MonoWaveUp(wave2.idx_end, wave_config[3], "3")
    IN  IF wave3.idx_end = None THEN <<>> ELSE
    LET wave4 == MonoWaveDown(wave3.idx_end, wave_config[4], "4")
    IN  IF wave4.idx_end = None THEN <<>>
        ELSE IF wave2.low > MinLows(wave2.low_idx, wave4.low_idx) THEN <<>> ELSE
    LET wave5 == MonoWaveUp(wave4.idx_end, wave_config[5], "5")
    IN  IF wave5.idx_end = None THEN <<>>
        ELSE IF /\ AnyLows(wave4.low_idx, wave5.high_idx)
                /\ wave4.low > MinLows(wave4.low_idx, wave5.high_idx) THEN <<>>
        ELSE <<wave1, wave2, wave3, wave4, wave5>>

\* _find_corrective_wave starting each next wave one candle after the previous end
_find_corrective_wave_gap(idx_start, wave_config) ==
    LET waveA == MonoWaveDown(idx_start, wave_config[1], "A")
    IN  IF waveA.idx_end = None THEN <<>> ELSE
    LET waveB == MonoWaveUp(waveA.idx_end + 1, wave_config[2], "B")
    IN  IF waveB.idx_end = None THEN <<>> ELSE
    LET waveC == MonoWaveDown(waveB.idx_end + 1, wave_config[3], "C")
    IN  IF waveC.idx_end = None THEN <<>>
        ELSE <<waveA, waveB, waveC>>

_find_corrective_wave(idx_start, wave_config) ==
    LET waveA == MonoWaveDown(idx_start, wave_config[1], "A")
    IN  IF waveA.idx_end = None THEN <<>> ELSE
    LET waveB == MonoWaveUp(waveA.idx_end, wave_config[2], "B")
    IN  IF waveB.idx_end = None THEN <<>> ELSE
    LET waveC == MonoWaveDown(waveB.idx_end, wave_config[3], "C")
    IN  IF waveC.idx_end = None THEN <<>>
        ELSE <<waveA, waveB, waveC>>

WaveCandidate(pattern, probability_analysis, wave_type, wave_options) ==
    [pattern |-> pattern, probability_analysis |-> probability_analysis,
     wave_type |-> wave_type, wave_options |-> wave_options,
     probability |-> probability_analysis.overall_probability]

\* the candidate appended for a scored pattern, if it qualifies.
\* min_probability is in percent, probabilities in 1/100 percent.
ScoredCandidate(min_probability, ws, prob_analysis, wave_type, wave_option) ==
    IF /\ prob_analysis.valid_pattern
       /\ prob_analysis.overall_probability >= 100 * min_probability
    THEN <<WaveCandidate(ws, prob_analysis, wave_type, wave_option)>>
    ELSE <<>>

\* the body of the search loop below `waves = self._find_impulsive_wave(...)`
ImpulseCandidateOf(min_probability, ws, wave_option) ==
    IF ws = <<>> THEN <<>>
    ELSE IF ~check_rule_impulse(ws) THEN <<>>
    ELSE ScoredCandidate(min_probability, ws, score_impulse_pattern(ws), "impulse",
                         wave_option)

\* the body of the search loop for one wave option: the candidate it appends, if any
ImpulseCandidate(min_probability, idx_start, wave_option) ==
    ImpulseCandidateOf(min_probability, _find_impulsive_wave(idx_start, wave_option),
                       wave_option)

CorrectiveCandidateOf(min_probability, ws, wave_option) ==
    IF ws = <<>> THEN <<>>
    ELSE IF ~check_rule_correction(ws) THEN <<>>
    ELSE ScoredCandidate(min_probability, ws, score_corrective_pattern(ws), "correction",
                         wave_option)

CorrectiveCandidate(min_probability, idx_start, wave_option) ==
    CorrectiveCandidateOf(min_probability, _find_corrective_wave(idx_start, wave_option),
                          wave_option)

RECURSIVE ImpulseCandidatesUntilFailure(_, _, _, _)
\* the search loop leaving at the first option whose chain is not built
ImpulseCandidatesUntilFailure(min_probability, idx_start, options, a) ==
    IF a > Len(options) THEN <<>>
    ELSE IF _find_impulsive_wave(idx_start, options[a]) = <<>> THEN <<>>
    ELSE ImpulseCandidate(min_probability, idx_start, options[a])
         \o ImpulseCandidatesUntilFailure(min_probability, idx_start, options, a + 1)

ImpulseCandidates_abort(min_probability, idx_start, options) ==
    ImpulseCandidatesUntilFailure(min_probability, idx_start, options, 1)

RECURSIVE ImpulseCandidatesIn(_, _, _, _, _)
\* the candidates appended while the loop runs over options[a..b], in order
ImpulseCandidatesIn(min_probability, idx_start, options, a, b) ==
    IF a > b THEN <<>>
    ELSE IF a = b THEN ImpulseCandidate(min_probability, idx_start, options[a])
    ELSE ImpulseCandidatesIn(min_probability, idx_start, options, a, (a + b) \div 2)
         \o ImpulseCandidatesIn(min_probability, idx_start, options, ((a + b) \div 2) + 1, b)

\* `for new_option in wave_options.options_sorted:` the candidates list after the loop
ImpulseCandidates(min_probability, idx_start, options) ==
    ImpulseCandidatesIn(min_probability, idx_start, options, 1, Len(options))

RECURSIVE CorrectiveCandidatesIn(_, _, _, _, _)
CorrectiveCandidatesIn(min_probability, idx_start, options, a, b) ==
    IF a > b THEN <<>>
    ELSE IF a = b THEN CorrectiveCandidate(min_probability, idx_start, options[a])
    ELSE CorrectiveCandidatesIn(min_probability, idx_start, options, a, (a + b) \div 2)
         \o CorrectiveCandidatesIn(min_probability, idx_start, options, ((a + b) \div 2) + 1, b)

CorrectiveCandidates(min_probability, idx_start, options) ==
    CorrectiveCandidatesIn(min_probability, idx_start, options, 1, Len(options))

\* WaveCandidate.__lt__
CandidateLt(a, b) == a.probability < b.probability

\* a sort that puts the later-appended of two equal candidates first
CandidatePrecedes_unstable(cs, j, i) ==
    \/ CandidateLt(cs[i], cs[j])
    \/ ~CandidateLt(cs[j], cs[i]) /\ j > i

\* list.sort(reverse=True) orders by __lt__, highest first, and is stable: cs[j]
\* precedes cs[i] iff cs[i] < cs[j], or neither is lower and j was appended first
CandidatePrecedes(cs, j, i) ==
    \/ CandidateLt(cs[i], cs[j])
    \/ ~CandidateLt(cs[j], cs[i]) /\ j < i

\* candidates.sort() without reverse=True
SortCandidates_ascending(cs) ==
    [r \in 1..Len(cs) |->
        cs[CHOOSE i \in 1..Len(cs) :
              Cardinality({j \in 1..Len(cs) : CandidatePrecedes(cs, i, j)}) = r - 1]]

SortCandidates(cs) ==
    [r \in 1..Len(cs) |->
        cs[CHOOSE i \in 1..Len(cs) :
              Cardinality({j \in 1..Len(cs) : CandidatePrecedes(cs, j, i)}) = r - 1]]

\* candidates[:max_results]
Truncate(cs, max_results) == SubSeq(cs, 1, Min2(Len(cs), max_results))

find_best_impulse_waves(min_probability, idx_start, max_results) ==
    Truncate(SortCandidates(ImpulseCandidates(min_probability, idx_start,
                                              WaveOptionsGenerator5)), max_results)

find_best_corrective_waves(min_probability, idx_start, max_results) ==
    Truncate(SortCandidates(CorrectiveCandidates(min_probability, idx_start,
                                                 WaveOptionsGenerator3)), max_results)

find_best_waves(min_probability, wave_type, idx_start, max_results) ==
    IF wave_type = "impulse"
    THEN find_best_impulse_waves(min_probability, idx_start, max_results)
    ELSE find_best_corrective_waves(min_probability, idx_start, max_results)

\* self.df.iloc[i]['Close']
CloseAt(i) == closes[i + 1]

NotFound(message) == [found |-> FALSE, message |-> message]

\* the price the targets are computed from: the Close at the pattern's end when the
\* caller gives none
TargetPrice(best_candidate, current_price) ==
    IF current_price # None THEN current_price
    ELSE IF /\ PatternIdxEnd(best_candidate.pattern) # None
            /\ PatternIdxEnd(best_candidate.pattern) < SeriesLen
         THEN CloseAt(PatternIdxEnd(best_candidate.pattern))
    ELSE None

\* result['targets'], None when the key is not set; `and current_price` is truthiness
TargetsOf(waves_list, wave_type, price) ==
    IF price = None \/ price = 0 THEN None
    ELSE IF wave_type = "impulse"
         THEN IF Len(waves_list) >= 4
              THEN calculate_wave_5_targets(waves_list[1], waves_list[2], waves_list[3],
                                            waves_list[4], price)
              ELSE None
    ELSE IF wave_type = "correction" /\ Len(waves_list) >= 2
         THEN calculate_wave_C_targets(waves_list[1], waves_list[2], price)
    ELSE None

\* find_wave_with_targets below `best_candidate = candidates[0]`
WithTargets(best_candidate, wave_type, current_price) ==
    [found |-> TRUE,
     wave_type |-> wave_type,
     probability |-> best_candidate.probability,
     category |-> best_candidate.probability_analysis.category,
     wave_pattern |-> best_candidate.pattern,
     probability_analysis |-> best_candidate.probability_analysis,
     wave_options |-> best_candidate.wave_options,
     targets |-> TargetsOf(best_candidate.pattern, wave_type,
                           TargetPrice(best_candidate, current_price))]

\* find_wave_with_targets below the search
TargetsFor(candidates, wave_type, current_price) ==
    IF candidates = <<>>
    THEN NotFound("No valid pattern found meeting probability threshold")
    ELSE WithTargets(candidates[1], wave_type, current_price)

find_wave_with_targets(min_probability, idx_start, wave_type, current_price) ==
    TargetsFor(find_best_waves(min_probability, wave_type, idx_start, 1), wave_type,
               current_price)

\* the bands with the limit between the two highest at 85
ProbabilityRange_shifted(prob) ==
    IF prob >= 9000 THEN "90-100%"
    ELSE IF prob >= 8500 THEN "80-89%"
    ELSE IF prob >= 7000 THEN "70-79%"
    ELSE IF prob >= 6000 THEN "60-69%"
    ELSE "50-59%"

\* the band a candidate is appended to
ProbabilityRange(prob) ==
    IF prob >= 9000 THEN "90-100%"
    ELSE IF prob >= 8000 THEN "80-89%"
    ELSE IF prob >= 7000 THEN "70-79%"
    ELSE IF prob >= 6000 THEN "60-69%"
    ELSE "50-59%"

\* analyze_segment_variations below the filter
SegmentSummary(filtered) ==
    IF filtered = <<>>
    THEN NotFound("No patterns found with probability >= min_probability")
    ELSE [found |-> TRUE,
          total_candidates |-> Len(filtered),
          best_candidate |-> filtered[1],
          \* summary: the non-empty ranges, each with its candidates' options
          probability_distribution |->
              [r \in {ProbabilityRange(filtered[k].probability) : k \in DOMAIN filtered} |->
                  LET members == SelectSeq(filtered,
                                           LAMBDA c : ProbabilityRange(c.probability) = r)
                  IN  [count |-> Len(members),
                       wave_options |-> [k \in DOMAIN members |-> members[k].wave_options],
                       avg_probability |->
                           <<SumSeq([k \in DOMAIN members |-> members[k].probability]),
                             Len(members)>>]],
          all_candidates |-> filtered]

\* the filter dropped: every candidate of the search passes
FilterCandidates_unfiltered(all_candidates, min_probability) == all_candidates

\* filtered = [c for c in all_candidates if c.probability >= min_probability]
FilterCandidates(all_candidates, min_probability) ==
    SelectSeq(all_candidates, LAMBDA c : c.probability >= 100 * min_probability)

analyze_segment_variations(analyzer_min_probability, idx_start, wave_type, min_probability) ==
    SegmentSummary(FilterCandidates(find_best_waves(analyzer_min_probability, wave_type,
                                                    idx_start, 100),
                                    min_probability))

MinBars == 50

\* range(0, len(self.df) - 50, step): the k-th start index is (k - 1) * step
ScanCount(step) ==
    IF SeriesLen - MinBars <= 0 THEN 0 ELSE ((SeriesLen - MinBars - 1) \div step) + 1

\* the scan loop below the search: the pattern it appends, if any
ScanFound(candidates, idx, wave_type, min_probability) ==
    IF candidates = <<>> THEN <<>>
    ELSE IF candidates[1].probability >= 100 * min_probability
         THEN <<[start_idx |-> idx,
                 end_idx |-> PatternIdxEnd(candidates[1].pattern),
                 probability |-> candidates[1].probability,
                 wave_type |-> wave_type,
                 wave_options |-> candidates[1].wave_options,
                 candidate |-> candidates[1]]>>
    ELSE <<>>

\* the body of the scan loop at idx
ScanAt(analyzer_min_probability, idx, wave_type, min_probability) ==
    ScanFound(find_best_waves(analyzer_min_probability, wave_type, idx, 1), idx, wave_type,
              min_probability)

RECURSIVE ScanRange(_, _, _, _, _, _)
\* all_patterns after the scans number a..b
ScanRange(analyzer_min_probability, wave_type, min_probability, step_size, a, b) ==
    IF a > b THEN <<>>
    ELSE IF a = b
         THEN ScanAt(analyzer_min_probability, (a - 1) * step_size, wave_type, min_probability)
    ELSE ScanRange(analyzer_min_probability, wave_type, min_probability, step_size,
                   a, (a + b) \div 2)
         \o ScanRange(analyzer_min_probability, wave_type, min_probability, step_size,
                      ((a + b) \div 2) + 1, b)

scan_entire_dataset(analyzer_min_probability, wave_type, min_probability, step_size) ==
    ScanRange(analyzer_min_probability, wave_type, min_probability, step_size,
              1, ScanCount(step_size))

(***************************************************************************)
(* HistoricalWaveLabeler: overlap policies and label extraction.           *)
(***************************************************************************)
\* the shared length divided by the length of the other range
_calculate_overlap_of_other(start1, end1, start2, end2) ==
    LET overlap_start == Max2(start1, start2)
        overlap_end == Min2(end1, end2)
    IN  IF overlap_start >= overlap_end THEN <<0, 1>>
        ELSE IF end2 - start2 = 0 THEN <<0, 1>>
        ELSE <<overlap_end - overlap_start, end2 - start2>>

_calculate_overlap(start1, end1, start2, end2) ==
    LET overlap_start == Max2(start1, start2)
        overlap_end == Min2(end1, end2)
    IN  IF overlap_start >= overlap_end THEN <<0, 1>>
        ELSE IF end1 - start1 = 0 THEN <<0, 1>>
        ELSE <<overlap_end - overlap_start, end1 - start1>>

\* overlap > 0.5 for the fraction returned by _calculate_overlap
OverlapsSignificantly(ratio) == 2 * ratio[1] > ratio[2]

\* key=lambda x: x['probability'], reverse=True
ByProbabilityDesc(a, b) == a.probability > b.probability

\* key=lambda x: (x['start_idx'], -x['probability'])
ByStartThenProbability(a, b) ==
    \/ a.start_idx < b.start_idx
    \/ a.start_idx = b.start_idx /\ a.probability > b.probability

PatternBefore(key, a, b) ==
    IF key = "probability" THEN ByProbabilityDesc(a, b) ELSE ByStartThenProbability(a, b)

\* sorted() is stable: ps[j] precedes ps[i] iff its key is smaller, or the keys are
\* equal and j comes first
PatternPrecedes(ps, key, j, i) ==
    \/ PatternBefore(key, ps[j], ps[i])
    \/ ~PatternBefore(key, ps[i], ps[j]) /\ j < i

SortPatterns(ps, key) ==
    [r \in 1..Len(ps) |->
        ps[CHOOSE i \in 1..Len(ps) :
              Cardinality({j \in 1..Len(ps) : PatternPrecedes(ps, key, j, i)}) = r - 1]]

RECURSIVE KeepHighest(_, _)
\* the loop over sorted_patterns; kept holds kept_patterns (and so used_ranges)
KeepHighest(sorted_patterns, kept) ==
    IF sorted_patterns = <<>> THEN kept
    ELSE LET pattern == Head(sorted_patterns)
             overlaps == \E k \in DOMAIN kept :
                 OverlapsSignificantly(_calculate_overlap(pattern.start_idx, pattern.end_idx,
                                                          kept[k].start_idx, kept[k].end_idx))
         IN  KeepHighest(Tail(sorted_patterns),
                         IF overlaps THEN kept ELSE Append(kept, pattern))

_filter_by_highest_probability(patterns) ==
    IF patterns = <<>> THEN <<>>
    ELSE KeepHighest(SortPatterns(patterns, "probability"), <<>>)

RECURSIVE KeepNonOverlapping(_, _, _)
KeepNonOverlapping(sorted_patterns, kept, last_end) ==
    IF sorted_patterns = <<>> THEN kept
    ELSE LET pattern == Head(sorted_patterns)
         IN  IF pattern.start_idx >= last_end
             THEN KeepNonOverlapping(Tail(sorted_patterns), Append(kept, pattern),
                                     pattern.end_idx)
             ELSE KeepNonOverlapping(Tail(sorted_patterns), kept, last_end)

_get_non_overlapping_patterns(patterns) ==
    IF patterns = <<>> THEN <<>>
    ELSE KeepNonOverlapping(SortPatterns(patterns, "start"), <<>>, -1)

\* the patterns _process_overlaps extracts labels from, in extraction order
RetainedPatterns(strategy, patterns) ==
    IF strategy = "all" THEN patterns
    ELSE IF strategy = "highest_probability" THEN _filter_by_highest_probability(patterns)
    ELSE IF strategy = "non_overlapping" THEN _get_non_overlapping_patterns(patterns)
    ELSE <<>>

_extract_waves_from_pattern(pattern_dict, pattern_idx) ==
    [k \in DOMAIN pattern_dict.pattern |->
        LET wave == pattern_dict.pattern[k]
        IN  [wave_type |-> pattern_dict.type, label |-> wave.label,
             start_idx |-> wave.idx_start, end_idx |-> wave.idx_end,
             start_price |-> wave.low, end_price |-> wave.high,
             probability |-> pattern_dict.probability,
             parent_pattern_idx |-> pattern_idx]]

\* WaveLabel.to_dict
to_dict(w) ==
    [wave_type |-> w.wave_type, label |-> w.label,
     start_idx |-> w.start_idx, end_idx |-> w.end_idx,
     start_price |-> w.start_price, end_price |-> w.end_price,
     probability |-> w.probability,
     length |-> Abs(w.end_price - w.start_price),
     direction |-> IF w.end_price > w.start_price THEN "up" ELSE "down"]

RECURSIVE ExtractRange(_, _, _)
\* for i, pattern_dict in enumerate(retained): the labels appended for retained[a..b]
ExtractRange(retained, a, b) ==
    IF a > b THEN <<>>
    ELSE IF a = b THEN _extract_waves_from_pattern(retained[a], a - 1)
    ELSE ExtractRange(retained, a, (a + b) \div 2)
         \o ExtractRange(retained, ((a + b) \div 2) + 1, b)

ExtractAll(retained) == ExtractRange(retained, 1, Len(retained))

_process_overlaps(strategy, patterns, labels) ==
    labels \o ExtractAll(RetainedPatterns(strategy, patterns))

_add_pattern_to_results(patterns, candidate, wave_type, start_idx) ==
    Append(patterns,
           [type |-> wave_type, probability |-> candidate.probability,
            start_idx |-> start_idx, end_idx |-> PatternIdxEnd(candidate.pattern),
            wave_options |-> candidate.wave_options, pattern |-> candidate.pattern,
            analysis |-> candidate.probability_analysis])

RECURSIVE AddPatterns(_, _, _, _)
\* for candidate in candidates: self._add_pattern_to_results(...)
AddPatterns(patterns, candidates, wave_type, start_idx) ==
    IF candidates = <<>> THEN patterns
    ELSE AddPatterns(_add_pattern_to_results(patterns, Head(candidates), wave_type, start_idx),
                     Tail(candidates), wave_type, start_idx)

\* one row of the labeled dataframe: the labels that end at candle i, in order
_create_labeled_dataframe(labels) ==
    LET marked == SelectSeq(labels, LAMBDA w : w.start_idx < SeriesLen /\ w.end_idx < SeriesLen)
    IN  [i \in 1..SeriesLen |->
            LET ending == SelectSeq(marked, LAMBDA w : w.end_idx = i - 1)
            IN  [wave_label |-> [k \in DOMAIN ending |-> ending[k].label],
                 wave_type |-> IF ending = <<>> THEN "" ELSE ending[Len(ending)].wave_type,
                 wave_probability |->
                     IF ending = <<>> THEN None ELSE ending[Len(ending)].probability,
                 wave_start |-> \E k \in DOMAIN marked : marked[k].start_idx = i - 1,
                 wave_end |-> ending # <<>>]]

\* one pass of the body of `for scan_num, idx_start in enumerate(range(...), 1)`:
\* the patterns it appends, impulses first
ScanStep(min_prob, idx_start, max_patterns_per_start, label_impulse, label_correction) ==
    (IF label_impulse
     THEN AddPatterns(<<>>, find_best_impulse_waves(min_prob, idx_start,
                                                    max_patterns_per_start),
                      "impulse", idx_start)
     ELSE <<>>)
    \o (IF label_correction
        THEN AddPatterns(<<>>, find_best_corrective_waves(min_prob, idx_start,
                                                          max_patterns_per_start),
                         "correction", idx_start)
        ELSE <<>>)

RECURSIVE ScanLoopRange(_, _, _, _, _, _, _)
\* the patterns appended by the passes number a..b
ScanLoopRange(min_prob, scan_step, max_patterns_per_start, label_impulse, label_correction, a, b) ==
    IF a > b THEN <<>>
    ELSE IF a = b
         THEN ScanStep(min_prob, (a - 1) * scan_step, max_patterns_per_start,
                       label_impulse, label_correction)
    ELSE ScanLoopRange(min_prob, scan_step, max_patterns_per_start, label_impulse,
                       label_correction, a, (a + b) \div 2)
         \o ScanLoopRange(min_prob, scan_step, max_patterns_per_start, label_impulse,
                          label_correction, ((a + b) \div 2) + 1, b)

\* self.all_patterns after the loop
ScanLoop(patterns, min_prob, scan_step, max_patterns_per_start, label_impulse, label_correction) ==
    patterns \o ScanLoopRange(min_prob, scan_step, max_patterns_per_start, label_impulse,
                              label_correction, 1, ScanCount(scan_step))

\* np.mean([w.probability for w in labels]) as the fraction <<sum, count>>; nan (None) if empty
MeanProbability(labels) ==
    IF labels = <<>> THEN None
    ELSE <<SumSeq([k \in DOMAIN labels |-> labels[k].probability]), Len(labels)>>

CountType(patterns, wave_type) ==
    Cardinality({k \in DOMAIN patterns : patterns[k].type = wave_type})

\* label_all_waves below _process_overlaps: the labeler's fields and the returned totals
LabelingResult(scanned, new_labels) ==
    [raised |-> FALSE,
     all_patterns |-> scanned,
     all_wave_labels |-> new_labels,
     labeled_dataframe |-> _create_labeled_dataframe(new_labels),
     returned |-> [total_patterns |-> Len(scanned),
                   total_wave_labels |-> Len(new_labels),
                   impulse_patterns |-> CountType(scanned, "impulse"),
                   correction_patterns |-> CountType(scanned, "correction"),
                   avg_probability |-> MeanProbability(new_labels)]]

\* label_all_waves below the scan loop
LabelScanned(strategy, scanned, labels) ==
    LabelingResult(scanned, _process_overlaps(strategy, scanned, labels))

\* The whole of label_all_waves on a labeler holding (patterns, labels): the new
\* fields and the returned totals.  The progress line of the first scan divides by
\* total_scans; with total_scans = 0 the call raises before anything is stored.
label_all_waves(min_prob, strategy, patterns, labels, dataframe, scan_step, max_patterns_per_start, label_impulse, label_correction) ==
    IF SeriesLen - MinBars > 0 /\ (SeriesLen - MinBars) \div scan_step = 0
    THEN [raised |-> TRUE, all_patterns |-> patterns, all_wave_labels |-> labels,
          labeled_dataframe |-> dataframe, returned |-> None]
    ELSE LabelScanned(strategy,
                      ScanLoop(patterns, min_prob, scan_step, max_patterns_per_start,
                               label_impulse, label_correction),
                      labels)

(***************************************************************************)
(* Scoring a caller-supplied wave list.  The list is a chain of MonoWaves  *)
(* as the constructors build them: alternating classes, each wave starting *)
(* at the pivot (index and price) where the previous one ended, an up-wave *)
(* ending above its start and a down-wave below it.                        *)
(***************************************************************************)
VARIABLES waves, result

\* the analyzer's and the labeler's configuration and the labeler's storage;
\* returns is the history of the label_all_waves calls made on the labeler;
\* frame is the label_all_waves call in progress: its position, arguments and locals
VARIABLES min_probability, overlap_strategy, all_patterns, all_wave_labels,
          labeled_dataframe, returns, frame

\* the strategy's record of the partial exits made, by trade id, and the history of
\* the adjust_trade_position calls made on it
VARIABLES partial_exit_levels, adjustments

series_vars == <<lows, highs, closes, price_den>>
strategy_vars == <<partial_exit_levels, adjustments>>
labeler_vars == <<min_probability, overlap_strategy, all_patterns, all_wave_labels,
                  labeled_dataframe, returns, frame>>

MaxWaves == 6
MaxPrice == 5
SlowStep == 3

Prices == 0..MaxPrice
\* a wave lasts one candle, or is the one slow wave of the list
SlowDurations == {1 + SlowStep, 1 + 2 * SlowStep}

MonoWaveRec(kind, idx_start, idx_end, start_price, end_price) ==
    IF kind = "up"
    THEN [kind |-> "up", idx_start |-> idx_start, idx_end |-> idx_end,
          low |-> start_price, low_idx |-> idx_start,
          high |-> end_price, high_idx |-> idx_end]
    ELSE [kind |-> "down", idx_start |-> idx_start, idx_end |-> idx_end,
          high |-> start_price, high_idx |-> idx_start,
          low |-> end_price, low_idx |-> idx_end]

EndPrice(w) == IF IsUp(w) THEN w.high ELSE w.low
StartPrice(w) == IF IsUp(w) THEN w.low ELSE w.high
Opposite(kind) == IF kind = "up" THEN "down" ELSE "up"
Monotone(kind, from, to) == IF kind = "up" THEN to > from ELSE to < from
HasSlowWave(ws) == \E i \in DOMAIN ws : WaveDuration(ws[i]) > 1

NoResult == [op |-> "none", args |-> <<>>, value |-> None]
NoFrame == [pc |-> "idle", args |-> <<>>, scan_num |-> 0, pending |-> <<>>]
Idle == result.op = "none"

\* no series and no labeler take part in scoring a supplied list
ScoreInit ==
    /\ waves = <<>>
    /\ result = NoResult
    /\ lows = <<>> /\ highs = <<>> /\ closes = <<>> /\ price_den = 1
    /\ min_probability = 0 /\ overlap_strategy = "no labeler"
    /\ all_patterns = <<>> /\ all_wave_labels = <<>>
    /\ labeled_dataframe = None /\ returns = <<>> /\ frame = NoFrame
    /\ partial_exit_levels = <<>> /\ adjustments = <<>>

AppendFirstWave ==
    /\ waves = <<>>
    /\ Idle
    /\ \E kind \in {"up", "down"}, p \in Prices, q \in Prices, d \in {1} \cup SlowDurations :
         /\ Monotone(kind, p, q)
         /\ waves' = <<MonoWaveRec(kind, 0, d, p, q)>>
    /\ UNCHANGED <<result, series_vars, strategy_vars, labeler_vars>>

AppendWave ==
    /\ waves # <<>>
    /\ Len(waves) < MaxWaves
    /\ Idle
    /\ LET last == waves[Len(waves)]
           kind == Opposite(last.kind)
       IN  \E q \in Prices, d \in {1} \cup SlowDurations :
             /\ Monotone(kind, EndPrice(last), q)
             /\ d > 1 => ~HasSlowWave(waves)
             /\ waves' = Append(waves, MonoWaveRec(kind, last.idx_end, last.idx_end + d,
                                                   EndPrice(last), q))
    /\ UNCHANGED <<result, series_vars, strategy_vars, labeler_vars>>

ScoreImpulse ==
    /\ Idle
    /\ result' = [op |-> "score_impulse_pattern", args |-> <<>>, value |-> score_impulse_pattern(waves)]
    /\ UNCHANGED <<waves, series_vars, strategy_vars, labeler_vars>>

ScoreCorrective ==
    /\ Idle
    /\ result' = [op |-> "score_corrective_pattern", args |-> <<>>, value |-> score_corrective_pattern(waves)]
    /\ UNCHANGED <<waves, series_vars, strategy_vars, labeler_vars>>

AnalyzeImpulse ==
    /\ Idle
    /\ result' = [op |-> "analyze_impulse_wave_pattern", args |-> <<>>,
                  value |-> analyze_impulse_wave_pattern(waves)]
    /\ UNCHANGED <<waves, series_vars, strategy_vars, labeler_vars>>

AnalyzeCorrective ==
    /\ Idle
    /\ result' = [op |-> "analyze_corrective_pattern", args |-> <<>>,
                  value |-> analyze_corrective_pattern(waves)]
    /\ UNCHANGED <<waves, series_vars, strategy_vars, labeler_vars>>

ScoreNext ==
    \/ AppendFirstWave
    \/ AppendWave
    \/ ScoreImpulse
    \/ ScoreCorrective
    \/ AnalyzeImpulse
    \/ AnalyzeCorrective

vars == <<waves, result, lows, highs, closes, price_den, min_probability, overlap_strategy,
          all_patterns, all_wave_labels, labeled_dataframe, returns, frame,
          partial_exit_levels, adjustments>>

SpecScore == ScoreInit /\ [][ScoreNext]_vars

(***************************************************************************)
(* FibonacciAnalyzer._find_matching_ratios on supplied ratios.  A ratio is *)
(* the pair <<num, den>>; result keeps the calls made and what each        *)
(* returned.                                                               *)
(***************************************************************************)
RatioResolution == 250000
MaxCalls == 2

\* ratios at, next to and around the 5% band of 1.0, and at and next to 0.618
ActualRatios ==
    {<<RatioResolution + o, RatioResolution>> :
        o \in {-12501, -12499, -1250, -3, -2, -1, 0, 1, 2, 3, 1250, 12499, 12501}}
    \cup {<<(618 * RatioResolution) \div 1000 + o, RatioResolution>> : o \in {0, 1, 7726}}

\* the constants of analyze_wave_2_retracement and of the wave 5 : wave 1 projection
ExpectedRatioLists == {<<382, 500, 618, 786, 854>>, <<618, 1000, 1618>>}

FindMatchingRatios ==
    /\ result.op \in {"none", "_find_matching_ratios"}
    /\ Len(result.args) < MaxCalls
    /\ \E actual_ratio \in ActualRatios, expected_ratios \in ExpectedRatioLists :
         result' = [op |-> "_find_matching_ratios",
                    args |-> Append(result.args, [actual_ratio |-> actual_ratio,
                                                  expected_ratios |-> expected_ratios]),
                    value |-> Append(IF Idle THEN <<>> ELSE result.value,
                                     _find_matching_ratios(actual_ratio[1], actual_ratio[2],
                                                           expected_ratios))]
    /\ UNCHANGED <<waves, series_vars, strategy_vars, labeler_vars>>

FibNext == FindMatchingRatios

SpecFib == ScoreInit /\ [][FibNext]_vars

(***************************************************************************)
(* TargetCalculator.calculate_wave_5_targets and calculate_wave_C_targets   *)
(* on supplied waves, at prices of no, two and three decimals.             *)
(***************************************************************************)
TargetStarts == {400, 1234}
TargetMoves == {<<100, 50, 150, 100>>, <<7, 3, 11, 4>>, <<10, 6, 16, 6>>, <<125, 50, 210, 85>>}
PriceDens == {1, 100, 1000}

\* waves 1-4 of an impulse in direction kind from start, of the lengths m
TargetWaves(kind, start, m) ==
    LET s == IF kind = "up" THEN 1 ELSE -1
        p1 == start + s * m[1]
        p2 == p1 - s * m[2]
        p3 == p2 + s * m[3]
        p4 == p3 - s * m[4]
    IN  <<MonoWaveRec(kind, 0, 1, start, p1), MonoWaveRec(Opposite(kind), 1, 2, p1, p2),
          MonoWaveRec(kind, 2, 3, p2, p3), MonoWaveRec(Opposite(kind), 3, 4, p3, p4)>>

TargetsInit ==
    /\ \E kind \in {"up", "down"}, start \in TargetStarts, m \in TargetMoves :
         waves = TargetWaves(kind, start, m)
    /\ price_den \in PriceDens
    /\ result = NoResult
    /\ lows = <<>> /\ highs = <<>> /\ closes = <<>>
    /\ min_probability = 0 /\ overlap_strategy = "no labeler"
    /\ all_patterns = <<>> /\ all_wave_labels = <<>>
    /\ labeled_dataframe = None /\ returns = <<>> /\ frame = NoFrame
    /\ partial_exit_levels = <<>> /\ adjustments = <<>>

\* the prices the caller may pass: none, the base price, and prices at, just short of,
\* just past and opposite to the point `reach` away from the base
CurrentPrices(base, reach) ==
    {None, base, base + reach - 1, base + reach, base + reach + 1, base - reach}

CalculateWave5Targets ==
    /\ Idle
    /\ Len(waves) = 4
    /\ \E current_price \in CurrentPrices(EndPrice(waves[4]),
                                          EndPrice(waves[1]) - StartPrice(waves[1])) :
         result' = [op |-> "calculate_wave_5_targets",
                    args |-> [current_price |-> current_price],
                    value |-> calculate_wave_5_targets(waves[1], waves[2], waves[3], waves[4],
                                                       current_price)]
    /\ UNCHANGED <<waves, series_vars, strategy_vars, labeler_vars>>

\* waves 1 and 2 of the list taken as waves A and B of a correction
CalculateWaveCTargets ==
    /\ Idle
    /\ Len(waves) = 4
    /\ \E current_price \in CurrentPrices(EndPrice(waves[2]),
                                          EndPrice(waves[1]) - StartPrice(waves[1])) :
         result' = [op |-> "calculate_wave_C_targets",
                    args |-> [current_price |-> current_price],
                    value |-> calculate_wave_C_targets(waves[1], waves[2], current_price)]
    /\ UNCHANGED <<waves, series_vars, strategy_vars, labeler_vars>>

TargetsNext == CalculateWave5Targets \/ CalculateWaveCTargets

SpecTargets == TargetsInit /\ [][TargetsNext]_vars

(***************************************************************************)
(* ProbabilityScorer on wave lists of given lengths: the textbook impulse  *)
(* (wave 2 = 0.618 x wave 1, wave 3 = 1.618 x wave 1, wave 4 = 0.382 x     *)
(* wave 3, wave 5 = wave 1) and other impulses and corrections, in both    *)
(* directions and over every choice of durations.                          *)
(***************************************************************************)
TextbookUnit == 250000
TextbookLengths ==
    <<TextbookUnit, (618 * TextbookUnit) \div 1000, (1618 * TextbookUnit) \div 1000,
      (382 * ((1618 * TextbookUnit) \div 1000)) \div 1000, TextbookUnit>>

ShapeLengths ==
    {TextbookLengths, <<19, 8, 34, 8, 27>>, <<25, 14, 39>>, <<25, 36, 39>>, <<100, 4, 50>>}
ShapeDurations == {1, 2, 5, 10, 40}
ShapeStart == 4 * TextbookUnit

RECURSIVE ShapeWaves(_, _, _, _, _)
\* the chained waves of the lengths and durations given, from wave number k on
ShapeWaves(kind, idx_start, start, lengths, durations) ==
    IF lengths = <<>> THEN <<>>
    ELSE LET end == IF kind = "up" THEN start + Head(lengths) ELSE start - Head(lengths)
             idx_end == idx_start + Head(durations)
         IN  <<MonoWaveRec(kind, idx_start, idx_end, start, end)>>
             \o ShapeWaves(Opposite(kind), idx_end, end, Tail(lengths), Tail(durations))

ShapesInit ==
    /\ \E kind \in {"up", "down"}, lengths \in ShapeLengths :
         \E durations \in [DOMAIN lengths -> ShapeDurations] :
             waves = ShapeWaves(kind, 0, ShapeStart, lengths, durations)
    /\ result = NoResult
    /\ lows = <<>> /\ highs = <<>> /\ closes = <<>> /\ price_den = 1
    /\ min_probability = 0 /\ overlap_strategy = "no labeler"
    /\ all_patterns = <<>> /\ all_wave_labels = <<>>
    /\ labeled_dataframe = None /\ returns = <<>> /\ frame = NoFrame
    /\ partial_exit_levels = <<>> /\ adjustments = <<>>

ShapesNext ==
    \/ ScoreImpulse
    \/ ScoreCorrective

SpecShapes == ShapesInit /\ [][ShapesNext]_vars

(***************************************************************************)
(* FreqtradeElliotWaveHelper.get_risk_reward_ratio.  The float returned is *)
(* the fraction <<numerator, denominator>> in lowest terms; 0.0 is <<0,1>>.*)
(***************************************************************************)
get_risk_reward_ratio_swapped(entry_price, target_price, invalidation_price) ==
    IF entry_price = invalidation_price THEN <<0, 1>>
    ELSE LET reward == Abs(target_price - invalidation_price)
             risk == Abs(entry_price - invalidation_price)
         IN  <<reward \div GCD(reward, risk), risk \div GCD(reward, risk)>>

get_risk_reward_ratio(entry_price, target_price, invalidation_price) ==
    IF entry_price = invalidation_price THEN <<0, 1>>
    ELSE LET reward == Abs(target_price - entry_price)
             risk == Abs(entry_price - invalidation_price)
         IN  IF risk = 0 THEN <<0, 1>>
             ELSE <<reward \div GCD(reward, risk), risk \div GCD(reward, risk)>>

RiskPrices == {47000, 48000, 50000, 52000, 55000}

GetRiskRewardRatio ==
    /\ Idle
    /\ \E entry_price \in RiskPrices, target_price \in RiskPrices, invalidation_price \in RiskPrices :
         result' = [op |-> "get_risk_reward_ratio",
                    args |-> [entry_price |-> entry_price, target_price |-> target_price,
                              invalidation_price |-> invalidation_price],
                    value |-> get_risk_reward_ratio(entry_price, target_price,
                                                    invalidation_price)]
    /\ UNCHANGED <<waves, series_vars, strategy_vars, labeler_vars>>

RiskNext == GetRiskRewardRatio

SpecRisk == ScoreInit /\ [][RiskNext]_vars

(***************************************************************************)
(* The analyzer and the labeler over a price series.  A series repeats a   *)
(* motif of eight single-candle moves (five advancing, three correcting)   *)
(* from Base upward; Low = High = Close on every candle.                   *)
(***************************************************************************)
Base == 200
ScanSpan == 10
MaxRuns == 2

Wave1Moves == {5, 10}
Wave2Moves == {3, 6}
Wave3Moves == {8, 16}
Motif(u1, d2, u3) == <<u1, -d2, u3, -6, 10, -8, 4, -8>>

\* the sum of the first k moves, taken cyclically
MovesSum(moves, k) == SumSeq([j \in 1..k |-> moves[((j - 1) % Len(moves)) + 1]])

\* the first n prices of the series that starts at base and follows moves cyclically
SeriesOf(moves, n, base) == [i \in 1..n |-> base + MovesSum(moves, i - 1)]

\* lengths just past the 50 candles a full scan leaves unscanned
SeriesLens == {MinBars + 3, MinBars + ScanSpan}
MinProbabilities == {60, 80}
Strategies == {"highest_probability", "non_overlapping", "all"}
NoLabeler == "no labeler"
WaveTypes == {"impulse", "correction"}
\* start indices near the head of the series and near its end
StartIndices == {0, 1, 5, SeriesLen - 12, SeriesLen - 3}
MaxResultsChoices == {1, 2, 100}
ScanSteps == {5, 10}
MaxPatternsChoices == {1, 3}

Init ==
    /\ \E u1 \in Wave1Moves, d2 \in Wave2Moves, u3 \in Wave3Moves, n \in SeriesLens :
         /\ lows = SeriesOf(Motif(u1, d2, u3), n, Base)
         /\ highs = lows
         /\ closes = lows
         /\ price_den = 1
    /\ min_probability \in MinProbabilities
    /\ overlap_strategy = NoLabeler
    /\ all_patterns = <<>>
    /\ all_wave_labels = <<>>
    /\ labeled_dataframe = None
    /\ returns = <<>>
    /\ frame = NoFrame
    /\ partial_exit_levels = <<>> /\ adjustments = <<>>
    /\ waves = <<>>
    /\ result = NoResult

\* an analyzer call is made on a freshly constructed analyzer, no labeler built yet
Fresh == Idle /\ overlap_strategy = NoLabeler

\* HistoricalWaveLabeler.__init__ on the same series and min_probability
NewLabeler ==
    /\ Fresh
    /\ overlap_strategy' \in Strategies
    /\ all_patterns' = <<>>
    /\ all_wave_labels' = <<>>
    /\ labeled_dataframe' = None
    /\ UNCHANGED <<waves, result, series_vars, strategy_vars, min_probability, returns, frame>>

FindBestImpulseWaves ==
    /\ Fresh
    /\ \E idx_start \in StartIndices, max_results \in MaxResultsChoices :
         result' = [op |-> "find_best_impulse_waves",
                    args |-> [idx_start |-> idx_start, max_results |-> max_results],
                    value |-> find_best_impulse_waves(min_probability, idx_start, max_results)]
    /\ UNCHANGED <<waves, series_vars, strategy_vars, labeler_vars>>

FindBestCorrectiveWaves ==
    /\ Fresh
    /\ \E idx_start \in StartIndices, max_results \in MaxResultsChoices :
         result' = [op |-> "find_best_corrective_waves",
                    args |-> [idx_start |-> idx_start, max_results |-> max_results],
                    value |-> find_best_corrective_waves(min_probability, idx_start,
                                                         max_results)]
    /\ UNCHANGED <<waves, series_vars, strategy_vars, labeler_vars>>

FindWaveWithTargets ==
    /\ Fresh
    /\ \E idx_start \in StartIndices, wave_type \in WaveTypes, current_price \in {None, Base} :
         result' = [op |-> "find_wave_with_targets",
                    args |-> [idx_start |-> idx_start, wave_type |-> wave_type,
                              current_price |-> current_price],
                    value |-> find_wave_with_targets(min_probability, idx_start, wave_type,
                                                     current_price)]
    /\ UNCHANGED <<waves, series_vars, strategy_vars, labeler_vars>>

AnalyzeSegmentVariations ==
    /\ Fresh
    /\ \E idx_start \in StartIndices, wave_type \in WaveTypes, min_prob \in {60, 90} :
         result' = [op |-> "analyze_segment_variations",
                    args |-> [idx_start |-> idx_start, wave_type |-> wave_type,
                              min_probability |-> min_prob],
                    value |-> analyze_segment_variations(min_probability, idx_start,
                                                         wave_type, min_prob)]
    /\ UNCHANGED <<waves, series_vars, strategy_vars, labeler_vars>>

ScanEntireDataset ==
    /\ Fresh
    /\ \E wave_type \in WaveTypes, min_prob \in {70, 90}, step_size \in ScanSteps :
         result' = [op |-> "scan_entire_dataset",
                    args |-> [wave_type |-> wave_type, min_probability |-> min_prob,
                              step_size |-> step_size],
                    value |-> scan_entire_dataset(min_probability, wave_type, min_prob,
                                                  step_size)]
    /\ UNCHANGED <<waves, series_vars, strategy_vars, labeler_vars>>

FindImpulsiveWave ==
    /\ Fresh
    /\ \E idx_start \in StartIndices, k \in DOMAIN WaveOptionsGenerator5 :
         result' = [op |-> "_find_impulsive_wave",
                    args |-> [idx_start |-> idx_start,
                              wave_config |-> WaveOptionsGenerator5[k]],
                    value |-> _find_impulsive_wave(idx_start, WaveOptionsGenerator5[k])]
    /\ UNCHANGED <<waves, series_vars, strategy_vars, labeler_vars>>

FindCorrectiveWave ==
    /\ Fresh
    /\ \E idx_start \in StartIndices, k \in DOMAIN WaveOptionsGenerator3 :
         result' = [op |-> "_find_corrective_wave",
                    args |-> [idx_start |-> idx_start,
                              wave_config |-> WaveOptionsGenerator3[k]],
                    value |-> _find_corrective_wave(idx_start, WaveOptionsGenerator3[k])]
    /\ UNCHANGED <<waves, series_vars, strategy_vars, labeler_vars>>

\* a further run on the same labeler repeats the arguments of its first run
LabelAllWaves ==
    /\ overlap_strategy # NoLabeler
    /\ Len(returns) < MaxRuns
    /\ \E scan_step \in ScanSteps, max_patterns_per_start \in MaxPatternsChoices,
          label_impulse \in BOOLEAN, label_correction \in BOOLEAN :
         /\ label_impulse \/ label_correction
         /\ returns # <<>> =>
                returns[1].args = [scan_step |-> scan_step,
                                   max_patterns_per_start |-> max_patterns_per_start,
                                   label_impulse |-> label_impulse,
                                   label_correction |-> label_correction]
         /\ \E out \in {label_all_waves(min_probability, overlap_strategy, all_patterns,
                                        all_wave_labels, labeled_dataframe, scan_step,
                                        max_patterns_per_start, label_impulse,
                                        label_correction)} :
              /\ all_patterns' = out.all_patterns
              /\ all_wave_labels' = out.all_wave_labels
              /\ labeled_dataframe' = out.labeled_dataframe
              /\ returns' = Append(returns,
                                   [args |-> [scan_step |-> scan_step,
                                              max_patterns_per_start |->
                                                  max_patterns_per_start,
                                              label_impulse |-> label_impulse,
                                              label_correction |-> label_correction],
                                    raised |-> out.raised,
                                    returned |-> out.returned,
                                    all_patterns |-> out.all_patterns,
                                    all_wave_labels |-> out.all_wave_labels])
    /\ UNCHANGED <<waves, result, series_vars, strategy_vars, min_probability, overlap_strategy, frame>>

Next ==
    \/ FindBestImpulseWaves
    \/ FindBestCorrectiveWaves
    \/ FindWaveWithTargets
    \/ AnalyzeSegmentVariations
    \/ ScanEntireDataset
    \/ FindImpulsiveWave
    \/ FindCorrectiveWave
    \/ NewLabeler
    \/ LabelAllWaves

Spec == Init /\ [][Next]_vars

(***************************************************************************)
(* label_all_waves step by step: the scan loop, one search or one append   *)
(* at a time, then overlap processing, the dataframe and the return.       *)
(*   loop              the head of `for scan_num, idx_start in ...`        *)
(*   impulse           before the impulse search of the index              *)
(*   add_impulse       in `for candidate in impulse_candidates`            *)
(*   correction        before the correction search of the index           *)
(*   add_correction    in `for candidate in correction_candidates`         *)
(*   process_overlaps  before self._process_overlaps()                     *)
(*   dataframe         before self._create_labeled_dataframe()             *)
(*   return            before the return statement                         *)
(***************************************************************************)
\* total_scans = (len(self.df) - 50) // scan_step
TotalScans(scan_step) == (SeriesLen - MinBars) \div scan_step

\* range(0, len(self.df) - 50, scan_step) has no element after the scan_num-th
LoopExhausted_first(scan_num, scan_step) == scan_num >= 1 \/ SeriesLen - MinBars <= 0

LoopExhausted(scan_num, scan_step) == scan_num >= ScanCount(scan_step)

\* progress = (scan_num / total_scans) * 100 divides by zero
ProgressRaises(scan_num, scan_step) ==
    (scan_num % 10 = 0 \/ scan_num = 1) /\ TotalScans(scan_step) = 0

\* the candidates the `for candidate in ...` loop has still to add after one pass
Remaining_break(pending) == <<>>

Remaining(pending) == Tail(pending)

At(pc) == frame.pc = pc
Goto(pc) == [frame EXCEPT !.pc = pc]
StartIdx == (frame.scan_num - 1) * frame.args.scan_step

CallLabelAllWaves ==
    /\ overlap_strategy # NoLabeler
    /\ At("idle")
    /\ Len(returns) < MaxRuns
    /\ \E scan_step \in ScanSteps, max_patterns_per_start \in MaxPatternsChoices,
          label_impulse \in BOOLEAN, label_correction \in BOOLEAN :
         /\ label_impulse \/ label_correction
         /\ \E args \in {[scan_step |-> scan_step,
                          max_patterns_per_start |-> max_patterns_per_start,
                          label_impulse |-> label_impulse,
                          label_correction |-> label_correction]} :
              /\ returns # <<>> => returns[1].args = args
              /\ frame' = [pc |-> "loop", args |-> args, scan_num |-> 0, pending |-> <<>>]
    /\ UNCHANGED <<waves, result, series_vars, strategy_vars, min_probability, overlap_strategy,
                   all_patterns, all_wave_labels, labeled_dataframe, returns>>

LoopHead ==
    /\ At("loop")
    /\ IF LoopExhausted(frame.scan_num, frame.args.scan_step)
       THEN frame' = Goto("process_overlaps") /\ UNCHANGED returns
       ELSE IF ProgressRaises(frame.scan_num + 1, frame.args.scan_step)
            THEN /\ frame' = NoFrame
                 /\ returns' = Append(returns,
                                      [args |-> frame.args, raised |-> TRUE,
                                       returned |-> None, all_patterns |-> all_patterns,
                                       all_wave_labels |-> all_wave_labels])
       ELSE /\ frame' = [frame EXCEPT !.pc = "impulse", !.scan_num = frame.scan_num + 1]
            /\ UNCHANGED returns
    /\ UNCHANGED <<waves, result, series_vars, strategy_vars, min_probability, overlap_strategy,
                   all_patterns, all_wave_labels, labeled_dataframe>>

SearchImpulse ==
    /\ At("impulse")
    /\ frame' = IF frame.args.label_impulse
                THEN [frame EXCEPT !.pc = "add_impulse",
                                   !.pending = find_best_impulse_waves(
                                       min_probability, StartIdx,
                                       frame.args.max_patterns_per_start)]
                ELSE Goto("correction")
    /\ UNCHANGED <<waves, result, series_vars, strategy_vars, min_probability, overlap_strategy,
                   all_patterns, all_wave_labels, labeled_dataframe, returns>>

AddImpulse ==
    /\ At("add_impulse")
    /\ IF frame.pending = <<>>
       THEN frame' = Goto("correction") /\ UNCHANGED all_patterns
       ELSE /\ all_patterns' = _add_pattern_to_results(all_patterns, Head(frame.pending),
                                                       "impulse", StartIdx)
            /\ frame' = [frame EXCEPT !.pending = Remaining(frame.pending)]
    /\ UNCHANGED <<waves, result, series_vars, strategy_vars, min_probability, overlap_strategy,
                   all_wave_labels, labeled_dataframe, returns>>

SearchCorrection ==
    /\ At("correction")
    /\ frame' = IF frame.args.label_correction
                THEN [frame EXCEPT !.pc = "add_correction",
                                   !.pending = find_best_corrective_waves(
                                       min_probability, StartIdx,
                                       frame.args.max_patterns_per_start)]
                ELSE Goto("loop")
    /\ UNCHANGED <<waves, result, series_vars, strategy_vars, min_probability, overlap_strategy,
                   all_patterns, all_wave_labels, labeled_dataframe, returns>>

AddCorrection ==
    /\ At("add_correction")
    /\ IF frame.pending = <<>>
       THEN frame' = Goto("loop") /\ UNCHANGED all_patterns
       ELSE /\ all_patterns' = _add_pattern_to_results(all_patterns, Head(frame.pending),
                                                       "correction", StartIdx)
            /\ frame' = [frame EXCEPT !.pending = Remaining(frame.pending)]
    /\ UNCHANGED <<waves, result, series_vars, strategy_vars, min_probability, overlap_strategy,
                   all_wave_labels, labeled_dataframe, returns>>

ProcessOverlaps ==
    /\ At("process_overlaps")
    /\ all_wave_labels' = _process_overlaps(overlap_strategy, all_patterns, all_wave_labels)
    /\ frame' = Goto("dataframe")
    /\ UNCHANGED <<waves, result, series_vars, strategy_vars, min_probability, overlap_strategy,
                   all_patterns, labeled_dataframe, returns>>

CreateLabeledDataframe ==
    /\ At("dataframe")
    /\ labeled_dataframe' = _create_labeled_dataframe(all_wave_labels)
    /\ frame' = Goto("return")
    /\ UNCHANGED <<waves, result, series_vars, strategy_vars, min_probability, overlap_strategy,
                   all_patterns, all_wave_labels, returns>>

ReturnTotals ==
    /\ At("return")
    /\ returns' = Append(returns,
                         [args |-> frame.args, raised |-> FALSE,
                          returned |-> LabelingResult(all_patterns, all_wave_labels).returned,
                          all_patterns |-> all_patterns,
                          all_wave_labels |-> all_wave_labels])
    /\ frame' = NoFrame
    /\ UNCHANGED <<waves, result, series_vars, strategy_vars, min_probability, overlap_strategy,
                   all_patterns, all_wave_labels, labeled_dataframe>>

StepNext ==
    \/ NewLabeler
    \/ CallLabelAllWaves
    \/ LoopHead
    \/ SearchImpulse
    \/ AddImpulse
    \/ SearchCorrection
    \/ AddCorrection
    \/ ProcessOverlaps
    \/ CreateLabeledDataframe
    \/ ReturnTotals

SpecSteps == Init /\ [][StepNext]_vars

(***************************************************************************)
(* EnhancedWaveAnalyzer.analyze_segment_variations for analyzers and calls *)
(* of any threshold, thresholds below 50 included.                         *)
(***************************************************************************)
BandThresholds == {0, 40, 55, 60, 80}

\* a motif that opens with a large advance, a slight setback and a short second advance
WeakMotif == <<50, -2, 26, -30, 10, -8, 4, -8>>
BandMotifs == {Motif(u1, d2, u3) : u1 \in Wave1Moves, d2 \in Wave2Moves, u3 \in Wave3Moves}
                  \cup {WeakMotif}

BandsInit ==
    /\ \E moves \in BandMotifs, n \in SeriesLens :
         /\ lows = SeriesOf(moves, n, Base)
         /\ highs = lows
         /\ closes = lows
         /\ price_den = 1
    /\ min_probability \in BandThresholds
    /\ overlap_strategy = NoLabeler
    /\ all_patterns = <<>> /\ all_wave_labels = <<>>
    /\ labeled_dataframe = None /\ returns = <<>> /\ frame = NoFrame
    /\ partial_exit_levels = <<>> /\ adjustments = <<>>
    /\ waves = <<>>
    /\ result = NoResult

AnalyzeSegmentVariationsAt ==
    /\ Fresh
    /\ \E idx_start \in StartIndices, wave_type \in WaveTypes, min_prob \in BandThresholds :
         result' = [op |-> "analyze_segment_variations",
                    args |-> [idx_start |-> idx_start, wave_type |-> wave_type,
                              min_probability |-> min_prob],
                    value |-> analyze_segment_variations(min_probability, idx_start,
                                                         wave_type, min_prob)]
    /\ UNCHANGED <<waves, series_vars, strategy_vars, labeler_vars>>

BandsNext == AnalyzeSegmentVariationsAt

SpecBands == BandsInit /\ [][BandsNext]_vars

(***************************************************************************)
(* The freqtrade integration: FreqtradeElliotWaveHelper.add_wave_indicators*)
(* and populate_indicators of the enhanced and the simple strategy, on a   *)
(* dataframe holding the analyzer's series.  Of the columns written, the   *)
(* <prefix>_probability and <prefix>_fib_score columns are kept; NaN is    *)
(* None.  A result of find_wave_with_targets is a dict: its keys are the   *)
(* fields of the record, and reading a key it lacks raises KeyError.       *)
(***************************************************************************)
PatternIdxStart(ws) == ws[1].idx_start

\* wave_analysis.get(key, default)
Get(d, key, default) == IF key \in DOMAIN d THEN d[key] ELSE default

\* dataframe.loc[a:b, column] = value (both ends included)
SetRows(column, a, b, value) ==
    [i \in DOMAIN column |-> IF a <= i - 1 /\ i - 1 <= b THEN value ELSE column[i]]

EmptyColumn(value) == [i \in 1..SeriesLen |-> value]

add_wave_indicators(wave_analysis) ==
    IF ~Get(wave_analysis, "found", FALSE)
    THEN [ew_probability |-> EmptyColumn(None), ew_fib_score |-> EmptyColumn(None)]
    ELSE LET probability == Get(wave_analysis, "overall_probability", 0)
             pattern == wave_analysis.wave_pattern
         IN  IF "wave_pattern" \notin DOMAIN wave_analysis
             THEN [ew_probability |-> EmptyColumn(None), ew_fib_score |-> EmptyColumn(None)]
             ELSE IF PatternIdxEnd(pattern) # None /\ PatternIdxEnd(pattern) < SeriesLen
             THEN [ew_probability |-> SetRows(EmptyColumn(None), PatternIdxStart(pattern),
                                             PatternIdxEnd(pattern), probability),
                   ew_fib_score |-> SetRows(EmptyColumn(None), PatternIdxStart(pattern),
                                            PatternIdxEnd(pattern),
                                            wave_analysis.probability_analysis.fibonacci_ratios)]
             ELSE [ew_probability |-> EmptyColumn(None), ew_fib_score |-> EmptyColumn(None)]

\* the indicators of a dataframe on which no pattern was used
EmptyIndicators == [ew_probability |-> EmptyColumn(0), ew_fib_score |-> EmptyColumn(0)]

\* scan_step = max(5, len(dataframe) // 20);
\* start_points = range(0, min(len(dataframe) - 50, self.wave_scan_window), scan_step)
wave_scan_window == 100
StrategyScanStep == Max2(5, SeriesLen \div 20)
StartPoints ==
    LET stop == Min2(SeriesLen - MinBars, wave_scan_window)
    IN  IF stop <= 0 THEN <<>>
        ELSE [k \in 1..(((stop - 1) \div StrategyScanStep) + 1) |-> (k - 1) * StrategyScanStep]

\* the analysis of a start point, with current_price = dataframe.iloc[-1]['close']
AnalysisAt(min_prob, idx_start) ==
    find_wave_with_targets(min_prob, idx_start, "impulse", closes[SeriesLen])

RECURSIVE BestImpulse(_, _, _)
\* the loop over start_points: best_impulse after the analyses given, <<>> for None;
\* reading analysis['overall_probability'] raises KeyError when the key is
\* missing, and the loop continues with the next start point
BestImpulse(analyses, best_impulse, best_probability) ==
    IF analyses = <<>> THEN best_impulse
    ELSE LET analysis == Head(analyses)
         IN  IF analysis.found /\ "overall_probability" \in DOMAIN analysis
             THEN IF analysis.overall_probability > best_probability
                  THEN BestImpulse(Tail(analyses), <<analysis>>, analysis.overall_probability)
                  ELSE BestImpulse(Tail(analyses), best_impulse, best_probability)
             ELSE BestImpulse(Tail(analyses), best_impulse, best_probability)

\* EnhancedElliotWaveStrategy.populate_indicators; analyses holds the result of
\* find_wave_with_targets at each start point
EnhancedPopulateIndicators(analyses) ==
    IF SeriesLen < 50 THEN [ew_probability |-> <<>>, ew_fib_score |-> <<>>]
    ELSE LET best_impulse == BestImpulse(analyses, <<>>, 0)
         IN  IF best_impulse # <<>> THEN add_wave_indicators(best_impulse[1])
             ELSE EmptyIndicators

\* dataframe['low'].idxmin(): the first index of the lowest low
LowestIdx == CHOOSE i \in 0..(SeriesLen - 1) :
                 /\ \A j \in 0..(SeriesLen - 1) : LowAt(i) <= LowAt(j)
                 /\ \A j \in 0..(i - 1) : LowAt(j) > LowAt(i)

MIN_PROBABILITY == 75

\* SimpleElliotWaveStrategy.populate_indicators; analysis is the result of
\* find_wave_with_targets at the lowest low.  A KeyError is caught by the handler's
\* `except Exception`, which leaves the empty indicators.
SimplePopulateIndicators(analysis) ==
    IF SeriesLen < 60 THEN EmptyIndicators
    ELSE IF ~analysis.found THEN EmptyIndicators
    ELSE IF "overall_probability" \notin DOMAIN analysis THEN EmptyIndicators
    ELSE IF analysis.overall_probability >= 100 * MIN_PROBABILITY
         THEN add_wave_indicators(analysis)
    ELSE EmptyIndicators

AddWaveIndicators ==
    /\ Fresh
    /\ \E idx_start \in StartIndices :
         \E analysis \in {AnalysisAt(min_probability, idx_start)} :
             result' = [op |-> "add_wave_indicators",
                        args |-> [idx_start |-> idx_start],
                        analysis |-> <<analysis>>,
                        value |-> add_wave_indicators(analysis)]
    /\ UNCHANGED <<waves, series_vars, strategy_vars, labeler_vars>>

EnhancedStrategyPopulate ==
    /\ Fresh
    /\ \E analyses \in {[k \in DOMAIN StartPoints |->
                            AnalysisAt(min_probability, StartPoints[k])]} :
         result' = [op |-> "EnhancedElliotWaveStrategy.populate_indicators",
                    args |-> <<>>,
                    analysis |-> analyses,
                    value |-> EnhancedPopulateIndicators(analyses)]
    /\ UNCHANGED <<waves, series_vars, strategy_vars, labeler_vars>>

SimpleStrategyPopulate ==
    /\ Fresh
    /\ \E analysis \in {AnalysisAt(MIN_PROBABILITY, LowestIdx)} :
         result' = [op |-> "SimpleElliotWaveStrategy.populate_indicators",
                    args |-> <<>>,
                    analysis |-> <<analysis>>,
                    value |-> SimplePopulateIndicators(analysis)]
    /\ UNCHANGED <<waves, series_vars, strategy_vars, labeler_vars>>

StrategyNext ==
    \/ AddWaveIndicators
    \/ EnhancedStrategyPopulate
    \/ SimpleStrategyPopulate

SpecStrategy == Init /\ [][StrategyNext]_vars

(***************************************************************************)
(* AdvancedElliotWaveStrategy.adjust_trade_position: the partial exits at  *)
(* the first two wave targets.  Rates, targets and stakes are integers;    *)
(* the returned stake adjustment is in 1/100 of the stake currency, <<>>   *)
(* stands for a returned None, and a candle's target is None when the      *)
(* column holds NaN or is missing.                                         *)
(***************************************************************************)
MaxAdjustCalls == 3
TradeIds == {1, 2}
StakeAmounts == {100}
CurrentProfits == {0, 5}
CurrentRates == {95, 99, 125}
\* the analyzed dataframe of the pair: empty, or its last candle
AnalyzedDataframes == {<<>>, <<[ew_target_1 |-> None, ew_target_2 |-> 120]>>, <<[ew_target_1 |-> 100, ew_target_2 |-> 120]>>}

target_level_1_pct == 33
target_level_2_pct == 33

\* the levels the strategy holds for a trade once the call has initialized them
LevelsOf(levels, trade_id) == IF trade_id \in DOMAIN levels THEN levels[trade_id] ELSE <<FALSE, FALSE, FALSE>>

\* current_rate >= target * 0.98
ReachedTarget(current_rate, target) == target # None /\ 100 * current_rate >= 98 * target

adjust_trade_position_untracked(levels, trade_id, stake_amount, current_rate, current_profit, dataframe) ==
    IF current_profit <= 0 \/ Len(dataframe) < 1
    THEN [partial_exit_levels |-> levels, returned |-> <<>>]
    ELSE LET last_candle == dataframe[Len(dataframe)]
             tracked == (trade_id :> LevelsOf(levels, trade_id)) @@ levels
         IN  IF ~tracked[trade_id][1] /\ ReachedTarget(current_rate, last_candle.ew_target_1)
             THEN [partial_exit_levels |-> tracked, returned |-> <<-(stake_amount * target_level_1_pct)>>]
             ELSE IF ~tracked[trade_id][2] /\ ReachedTarget(current_rate, last_candle.ew_target_2)
             THEN [partial_exit_levels |-> tracked, returned |-> <<-(stake_amount * target_level_2_pct)>>]
             ELSE [partial_exit_levels |-> tracked, returned |-> <<>>]

adjust_trade_position(levels, trade_id, stake_amount, current_rate, current_profit, dataframe) ==
    IF current_profit <= 0 \/ Len(dataframe) < 1
    THEN [partial_exit_levels |-> levels, returned |-> <<>>]
    ELSE LET last_candle == dataframe[Len(dataframe)]
             tracked == (trade_id :> LevelsOf(levels, trade_id)) @@ levels
         IN  IF ~tracked[trade_id][1] /\ ReachedTarget(current_rate, last_candle.ew_target_1)
             THEN [partial_exit_levels |-> [tracked EXCEPT ![trade_id][1] = TRUE], returned |-> <<-(stake_amount * target_level_1_pct)>>]
             ELSE IF ~tracked[trade_id][2] /\ ReachedTarget(current_rate, last_candle.ew_target_2)
             THEN [partial_exit_levels |-> [tracked EXCEPT ![trade_id][2] = TRUE], returned |-> <<-(stake_amount * target_level_2_pct)>>]
             ELSE [partial_exit_levels |-> tracked, returned |-> <<>>]

\* __init__: no trade is tracked; the other components take no part
AdjustInit ==
    /\ waves = <<>>
    /\ result = NoResult
    /\ lows = <<>> /\ highs = <<>> /\ closes = <<>> /\ price_den = 1
    /\ min_probability = 0 /\ overlap_strategy = "no labeler"
    /\ all_patterns = <<>> /\ all_wave_labels = <<>>
    /\ labeled_dataframe = None /\ returns = <<>> /\ frame = NoFrame
    /\ partial_exit_levels = <<>> /\ adjustments = <<>>

\* one call of adjust_trade_position; the history keeps the call's arguments, the
\* trade's levels before and after it and what it returned
AdjustTradePosition ==
    /\ Len(adjustments) < MaxAdjustCalls
    /\ \E trade_id \in TradeIds, stake_amount \in StakeAmounts, current_rate \in CurrentRates, current_profit \in CurrentProfits, dataframe \in AnalyzedDataframes :
         LET out == adjust_trade_position(partial_exit_levels, trade_id, stake_amount, current_rate, current_profit, dataframe)
         IN  /\ partial_exit_levels' = out.partial_exit_levels
             /\ adjustments' = Append(adjustments, [trade_id |-> trade_id, current_rate |-> current_rate, current_profit |-> current_profit, dataframe |-> dataframe, before |-> LevelsOf(partial_exit_levels, trade_id), after |-> LevelsOf(out.partial_exit_levels, trade_id), returned |-> out.returned])
    /\ UNCHANGED <<waves, result, series_vars, labeler_vars>>

AdjustNext == AdjustTradePosition

SpecAdjust == AdjustInit /\ [][AdjustNext]_vars

(***************************************************************************)
(* Properties of the scorer (SpecScore).                                   *)
(***************************************************************************)
ScoreOps == {"score_impulse_pattern", "score_corrective_pattern"}

\* C1: whenever score_impulse_pattern or score_corrective_pattern returns a
\* result, its rule score is 0 or 100, and a result that reports a rule violation
\* has valid_pattern = False and overall_probability = 0, whatever the wave list
\* would have scored on Fibonacci ratios, guidelines and structure.
C1_RuleViolationGates ==
    (result.op \in ScoreOps /\ ~result.value.raised) =>
        /\ result.value.rules_compliance.score \in {0, 100}
        /\ result.value.rules_compliance.violations # <<>> =>
               /\ result.value.valid_pattern = FALSE
               /\ result.value.overall_probability = 0

\* C1 witness: an impulse list with a rule violation was scored although its
\* guideline and structure scores are 70 or more and its Fibonacci score 50 or more
C1_ViolationWithGoodScores ==
    /\ result.op = "score_impulse_pattern"
    /\ ~result.value.raised
    /\ result.value.rules_compliance.violations # <<>>
    /\ _score_impulse_guidelines(waves).score >= 7000
    /\ _score_wave_structure(waves).score >= 7000
    /\ analyze_impulse_wave_pattern(waves).overall_fibonacci_score >= 5000

Arity(op) ==
    IF op \in {"score_impulse_pattern", "analyze_impulse_wave_pattern"} THEN 5 ELSE 3

\* C10: score_impulse_pattern and analyze_impulse_wave_pattern raise for every list
\* whose length is not 5, score_corrective_pattern and analyze_corrective_pattern
\* for every list whose length is not 3; the call returns no result and no rule,
\* Fibonacci, guideline or structure score has been computed.
C10_WrongArityRaises ==
    (~Idle /\ Len(waves) # Arity(result.op)) =>
        /\ result.value.raised
        /\ \A f \in DOMAIN result.value \ {"raised"} : result.value[f] = None

\* C10 witness: a list of six waves was passed to score_corrective_pattern
C10_SixWavesRejected ==
    /\ result.op = "score_corrective_pattern"
    /\ Len(waves) = 6
    /\ result.value.raised

(***************************************************************************)
(* Properties of the labeler's overlap policies (Spec).                    *)
(***************************************************************************)
Labelled(strategy) == overlap_strategy = strategy /\ returns # <<>>

C2_Disjoint(retained) ==
    \A i, j \in DOMAIN retained :
        i # j => \/ retained[i].end_idx < retained[j].start_idx
                 \/ retained[j].end_idx < retained[i].start_idx

\* C2: under the non_overlapping strategy, after any scan, no two patterns retained
\* by _get_non_overlapping_patterns share an index: their inclusive ranges
\* [start_idx, end_idx] are pairwise disjoint.
C2_NoSharedIndex ==
    Labelled("non_overlapping") => C2_Disjoint(_get_non_overlapping_patterns(all_patterns))

\* the candles two patterns have in common, as a length
C3_Shared(p, q) == Max2(0, Min2(p.end_idx, q.end_idx) - Max2(p.start_idx, q.start_idx))

\* shared length / p's own length <= 0.5 against every pattern of kept
C3_Fits(p, kept) ==
    \A k \in DOMAIN kept : 2 * C3_Shared(p, kept[k]) <= p.end_idx - p.start_idx

C3_MutualOverlap(p, q) ==
    /\ 2 * C3_Shared(p, q) > p.end_idx - p.start_idx
    /\ 2 * C3_Shared(p, q) > q.end_idx - q.start_idx

\* the k-th pattern in processing order joins the patterns retained before it iff it fits
C3_Step(sorted, k, before, after) ==
    after = IF C3_Fits(sorted[k], before) THEN Append(before, sorted[k]) ELSE before

C3_Greedy(sorted, retained) ==
    /\ \A k \in 1..(Len(sorted) - 1) : sorted[k].probability >= sorted[k + 1].probability
    /\ \A k \in DOMAIN sorted :
           C3_Step(sorted, k, _filter_by_highest_probability(SubSeq(sorted, 1, k - 1)),
                   _filter_by_highest_probability(SubSeq(sorted, 1, k)))
    /\ retained = _filter_by_highest_probability(sorted)
    /\ \A i, j \in DOMAIN retained : i # j => ~C3_MutualOverlap(retained[i], retained[j])

\* C3: under the highest_probability strategy the patterns are processed in
\* descending probability and a pattern is retained iff its shared length with every
\* pattern already retained is at most half its own length; so of two patterns that
\* each overlap the other by more than half, never both are retained.
C3_GreedyByProbability ==
    Labelled("highest_probability") =>
        C3_Greedy(SortPatterns(all_patterns, "probability"),
                  _filter_by_highest_probability(all_patterns))

C3_Dropped(patterns, retained) ==
    \E i, j \in DOMAIN patterns :
        /\ patterns[i].probability > patterns[j].probability
        /\ C3_MutualOverlap(patterns[i], patterns[j])
        /\ \E k \in DOMAIN retained : retained[k] = patterns[i]
        /\ \A k \in DOMAIN retained : retained[k] # patterns[j]
        \* and a pattern that shares candles with a retained one is retained all the same
        /\ \E k, l \in DOMAIN retained :
               k # l /\ C3_Shared(retained[k], retained[l]) > 0

\* C3 witness: a scan found two patterns overlapping each other by more than half,
\* the more probable one was retained and the other dropped, while a third pattern
\* sharing no more than half of its length with a retained one was retained
C3_LowerOfPairDropped ==
    /\ Labelled("highest_probability")
    /\ C3_Dropped(all_patterns, _filter_by_highest_probability(all_patterns))

\* C4: a second label_all_waves run on the same labeler, with the same series and
\* arguments, leaves the same all_patterns and all_wave_labels and returns the same
\* totals as the first.
C4_SecondRunIdentical ==
    Len(returns) >= 2 =>
        /\ returns[2].raised = returns[1].raised
        /\ returns[2].all_patterns = returns[1].all_patterns
        /\ returns[2].all_wave_labels = returns[1].all_wave_labels
        /\ ~returns[1].raised =>
               /\ returns[2].returned.total_patterns = returns[1].returned.total_patterns
               /\ returns[2].returned.total_wave_labels
                      = returns[1].returned.total_wave_labels

(***************************************************************************)
(* Properties of the per-start-index search (Spec).                        *)
(***************************************************************************)
SearchOps == {"find_best_impulse_waves", "find_best_corrective_waves"}

\* the candidates the search loop of the call in result appended, in enumeration order
SearchedCandidates ==
    IF result.op = "find_best_impulse_waves"
    THEN ImpulseCandidates(min_probability, result.args.idx_start, WaveOptionsGenerator5)
    ELSE CorrectiveCandidates(min_probability, result.args.idx_start, WaveOptionsGenerator3)

SearchedOptions ==
    IF result.op = "find_best_impulse_waves" THEN WaveOptionsGenerator5
    ELSE WaveOptionsGenerator3

Included(cs, c) == \E k \in DOMAIN cs : cs[k].wave_options = c.wave_options

C5_TopK(cs, qualifying, max_results) ==
    /\ Len(cs) <= max_results
    /\ \A k \in DOMAIN cs :
           /\ cs[k].probability_analysis.valid_pattern
           /\ cs[k].probability >= 100 * min_probability
           /\ \E q \in DOMAIN qualifying : qualifying[q] = cs[k]
    /\ \A k \in 1..(Len(cs) - 1) : cs[k].probability >= cs[k + 1].probability
    /\ \A q \in DOMAIN qualifying :
           ~Included(cs, qualifying[q]) =>
               \A k \in DOMAIN cs : qualifying[q].probability <= cs[k].probability

\* C5: find_best_impulse_waves and find_best_corrective_waves return at most
\* max_results candidates, each valid with probability >= the analyzer's
\* min_probability, in non-increasing probability order, and no qualifying candidate
\* left out has a strictly higher probability than one included.
C5_BestCandidatesReturned ==
    result.op \in SearchOps =>
        C5_TopK(result.value, SearchedCandidates, result.args.max_results)

\* C5 witness: a search with max_results = 2 returned two candidates of different
\* probability and left a qualifying candidate out
C5_TruncatedSearch ==
    /\ result.op \in SearchOps
    /\ result.args.max_results = 2
    /\ Len(result.value) = 2
    /\ result.value[1].probability > result.value[2].probability
    /\ Len(SearchedCandidates) > 2

\* the place of a wave option in the enumeration
OptionIndex(options, wave_option) == CHOOSE k \in DOMAIN options : options[k] = wave_option

C6_EnumerationOrder(cs, qualifying, options) ==
    /\ \A k, l \in DOMAIN cs :
           (k < l /\ cs[k].probability = cs[l].probability) =>
               /\ OptionIndex(options, cs[k].wave_options)
                      < OptionIndex(options, cs[l].wave_options)
               /\ SumSeq(cs[k].wave_options) <= SumSeq(cs[l].wave_options)
    /\ \A q \in DOMAIN qualifying, k \in DOMAIN cs :
           (~Included(cs, qualifying[q]) /\ qualifying[q].probability = cs[k].probability) =>
               OptionIndex(options, cs[k].wave_options)
                   < OptionIndex(options, qualifying[q].wave_options)

\* C6: in the list returned by find_best_impulse_waves / find_best_corrective_waves,
\* candidates of equal probability stand in the order their wave options were
\* enumerated (lower total skip first), and of two tied candidates that truncation
\* separates, the earlier-enumerated one is kept.
C6_TiesInEnumerationOrder ==
    result.op \in SearchOps =>
        C6_EnumerationOrder(result.value, SearchedCandidates, SearchedOptions)

C6_TieCut(cs, qualifying) ==
    /\ Len(cs) = 2
    /\ \E q \in DOMAIN qualifying :
           /\ ~Included(cs, qualifying[q])
           /\ qualifying[q].probability = cs[2].probability

\* C6 witness: a search with max_results = 2 kept one of two candidates of equal
\* probability and cut the other
C6_TieSeparatedByTruncation ==
    /\ result.op \in SearchOps
    /\ result.args.max_results = 2
    /\ C6_TieCut(result.value, SearchedCandidates)

ChainOps == {"_find_impulsive_wave", "_find_corrective_wave"}

C7_Contiguous(ws, idx_start, n) ==
    /\ Len(ws) = n
    /\ ws[1].idx_start = idx_start
    /\ \A i \in 1..(n - 1) : ws[i].idx_end = ws[i + 1].idx_start

\* C7: every chain returned by _find_impulsive_wave (five waves, four junctions) or
\* _find_corrective_wave (three waves, two junctions) starts at the requested
\* idx_start, and each wave ends at the index where the next one starts.
C7_ChainContiguous ==
    (result.op \in ChainOps /\ result.value # <<>>) =>
        C7_Contiguous(result.value, result.args.idx_start,
                      IF result.op = "_find_impulsive_wave" THEN 5 ELSE 3)

\* C7 witness: a corrective chain was built with a skip in its second wave
C7_CorrectiveChainBuilt ==
    /\ result.op = "_find_corrective_wave"
    /\ result.value # <<>>
    /\ result.args.wave_config[2] > 0
    /\ result.value[3].idx_end > result.value[3].idx_start

ReportOps == {"find_wave_with_targets", "analyze_segment_variations"}

\* the threshold the report applies: the analyzer's own, or the caller's if stricter
ReportThreshold ==
    IF result.op = "analyze_segment_variations"
    THEN Max2(min_probability, result.args.min_probability)
    ELSE min_probability

ReportedCandidates ==
    IF result.args.wave_type = "impulse"
    THEN ImpulseCandidates(min_probability, result.args.idx_start, WaveOptionsGenerator5)
    ELSE CorrectiveCandidates(min_probability, result.args.idx_start, WaveOptionsGenerator3)

C8_Report(value, candidates, threshold) ==
    /\ "found" \in DOMAIN value
    /\ value.found \in BOOLEAN
    /\ value.found <=> \E k \in DOMAIN candidates :
                           candidates[k].probability >= 100 * threshold
    /\ ~value.found => /\ DOMAIN value = {"found", "message"}
                       /\ value.message # ""

\* C8: find_wave_with_targets and analyze_segment_variations always return a record;
\* when no pattern meets the threshold it has found = False and a message, and it
\* has found = True only when a qualifying candidate exists.
C8_NotFoundIsReported ==
    result.op \in ReportOps => C8_Report(result.value, ReportedCandidates, ReportThreshold)

\* C8 witness: analyze_segment_variations reported found = False although the search
\* had candidates, none of them reaching the caller's threshold
C8_NoneMeetsThreshold ==
    /\ result.op = "analyze_segment_variations"
    /\ ~result.value.found
    /\ ReportedCandidates # <<>>

RECURSIVE ChainExhausted(_, _, _, _)
\* building waves k.. of the chain from idx runs out of candles: some idx_end is None
ChainExhausted(idx, wave_config, k, up) ==
    IF k > Len(wave_config) THEN FALSE
    ELSE IF up
         THEN MonoWaveUp(idx, wave_config[k], "").idx_end = None
              \/ ChainExhausted(MonoWaveUp(idx, wave_config[k], "").idx_end, wave_config,
                                k + 1, FALSE)
    ELSE MonoWaveDown(idx, wave_config[k], "").idx_end = None
         \/ ChainExhausted(MonoWaveDown(idx, wave_config[k], "").idx_end, wave_config,
                           k + 1, TRUE)

OptionExhausted(op, idx_start, wave_option) ==
    ChainExhausted(idx_start, wave_option, 1, op = "find_best_impulse_waves")

OptionCandidate(op, idx_start, wave_option) ==
    IF op = "find_best_impulse_waves"
    THEN ImpulseCandidate(min_probability, idx_start, wave_option)
    ELSE CorrectiveCandidate(min_probability, idx_start, wave_option)

C9_Skipped(op, cs, idx_start, max_results, options) ==
    /\ DOMAIN cs = 1..Len(cs)
    /\ \A k \in DOMAIN options :
           OptionExhausted(op, idx_start, options[k]) =>
               \A c \in DOMAIN cs : cs[c].wave_options # options[k]
    /\ max_results >= Len(options) =>
           \A k \in DOMAIN options :
               OptionCandidate(op, idx_start, options[k]) # <<>> =>
                   \E c \in DOMAIN cs : cs[c] = OptionCandidate(op, idx_start, options[k])[1]

\* C9: in find_best_impulse_waves / find_best_corrective_waves an option whose chain
\* runs out of candles records no candidate, the options enumerated after it are
\* still searched (each qualifying one is returned when max_results does not
\* truncate), and the call returns its list.
C9_ExhaustedOptionSkipped ==
    result.op \in SearchOps =>
        C9_Skipped(result.op, result.value, result.args.idx_start, result.args.max_results,
                   SearchedOptions)

C9_FoundAfterExhausted(op, cs, idx_start, options) ==
    \E j, k \in DOMAIN options :
        /\ j < k
        /\ OptionExhausted(op, idx_start, options[j])
        /\ \E c \in DOMAIN cs : cs[c].wave_options = options[k]

\* C9 witness: an impulse search returned a candidate for an option enumerated after
\* one whose chain ran out of candles
C9_CandidateAfterExhaustedOption ==
    /\ result.op = "find_best_impulse_waves"
    /\ C9_FoundAfterExhausted(result.op, result.value, result.args.idx_start,
                              WaveOptionsGenerator5)

(***************************************************************************)
(* Properties of the order of the steps of label_all_waves (SpecSteps).    *)
(***************************************************************************)
\* self.all_patterns when the call in progress began
PatternsAtCall == IF returns = <<>> THEN <<>> ELSE returns[Len(returns)].all_patterns

\* what the scan appends for the first n start indices
ScannedUpTo(n) ==
    ScanLoopRange(min_probability, frame.args.scan_step, frame.args.max_patterns_per_start,
                  frame.args.label_impulse, frame.args.label_correction, 1, n)

\* both searches of the current start index, as far as enabled, have completed
IndexSearched ==
    \/ At("add_correction")
    \/ At("add_impulse") /\ ~frame.args.label_correction

\* C11 (as claimed): a pattern is appended to all_patterns only when the search at
\* its start index has fully completed, the impulse search and the correction
\* search when both are enabled.
C11_AppendedAfterIndexSearched ==
    [][all_patterns' # all_patterns => IndexSearched]_vars

\* the candidates of the search that has just completed at the current start index
CompletedSearch ==
    IF At("add_impulse")
    THEN find_best_impulse_waves(min_probability, StartIdx, frame.args.max_patterns_per_start)
    ELSE IF At("add_correction")
    THEN find_best_corrective_waves(min_probability, StartIdx,
                                    frame.args.max_patterns_per_start)
    ELSE <<>>

C11_AppendsCandidateOf(candidates, before, after) ==
    \E k \in DOMAIN candidates :
        /\ Len(after) = Len(before) + 1
        /\ SubSeq(after, 1, Len(before)) = before
        /\ after[Len(after)].start_idx = StartIdx
        /\ after[Len(after)].pattern = candidates[k].pattern
        /\ after[Len(after)].type = candidates[k].wave_type

\* C11 (amended): a pattern is appended only as a candidate of a search, impulse or
\* correction, that has completed at the current start index, and whenever the loop
\* is between two start indices all_patterns holds exactly the candidates of every
\* start index searched so far.
C11_AppendedAfterOwnSearch ==
    /\ [](At("loop") => all_patterns = PatternsAtCall \o ScannedUpTo(frame.scan_num))
    /\ [][all_patterns' # all_patterns =>
             C11_AppendsCandidateOf(CompletedSearch, all_patterns, all_patterns')]_vars

\* C11 witness: the impulse candidates of a start index are in all_patterns while
\* the correction search of that index has yet to run
C11_ImpulseAddedBeforeCorrectionSearch ==
    /\ At("correction")
    /\ frame.args.label_correction
    /\ frame.scan_num = 2
    /\ \E k \in DOMAIN all_patterns :
           all_patterns[k].start_idx = StartIdx /\ all_patterns[k].type = "impulse"

\* C12: all_wave_labels changes only in _process_overlaps, which runs when every
\* start index of the scan has been searched and all_patterns holds all the
\* candidates of the scan; nothing is filtered or extracted while the scan runs.
C12_OverlapsAfterFullScan ==
    [][all_wave_labels' # all_wave_labels =>
          /\ At("process_overlaps")
          /\ frame.scan_num * frame.args.scan_step >= SeriesLen - MinBars
          /\ all_patterns = PatternsAtCall \o ScannedUpTo(ScanCount(frame.args.scan_step))]_vars

\* C12 witness: labels were extracted after a scan over two start indices
C12_LabelsAfterTwoIndices ==
    /\ At("dataframe")
    /\ frame.scan_num = 2
    /\ all_wave_labels # <<>>
    /\ \E k \in DOMAIN all_patterns : all_patterns[k].start_idx > 0

(***************************************************************************)
(* Properties of _find_matching_ratios (SpecFib).                          *)
(***************************************************************************)
FibCalls == IF result.op = "_find_matching_ratios" THEN DOMAIN result.value ELSE {}

\* |actual - e| * den * 1000 of call c, and the denominator of its relative deviation
C13_Dev(c, e) == Abs(1000 * result.args[c].actual_ratio[1] - e * result.args[c].actual_ratio[2])
C13_Den(c, e) == e * result.args[c].actual_ratio[2]

\* the score call c recorded for constant e, or None
C13_ScoreOf(c, e) ==
    IF \E k \in DOMAIN result.value[c] : result.value[c][k].fibonacci_ratio = e
    THEN LET k == CHOOSE k \in DOMAIN result.value[c] : result.value[c][k].fibonacci_ratio = e
         IN  result.value[c][k].score
    ELSE None

C13_Constants(c) == {result.args[c].expected_ratios[k] : k \in DOMAIN result.args[c].expected_ratios}

\* a match only within 5% relative deviation, and the score 1.0 at zero deviation
C13_MatchWithinTolerance ==
    \A c \in FibCalls : \A e \in C13_Constants(c) :
        /\ C13_ScoreOf(c, e) # None => 20 * C13_Dev(c, e) <= C13_Den(c, e)
        /\ C13_Dev(c, e) = 0 => C13_ScoreOf(c, e) = 10000

\* two calls that both matched constant e, on ratios of the same denominator
C13_BothMatch(c, d, e) ==
    /\ e \in C13_Constants(c) \cap C13_Constants(d)
    /\ C13_Den(c, e) = C13_Den(d, e)
    /\ C13_ScoreOf(c, e) # None
    /\ C13_ScoreOf(d, e) # None

\* C13 (as claimed): a match is recorded only within 5% relative deviation, the score
\* is 1.0 at zero deviation, and two ratios with different relative deviations to
\* the same constant never receive the same score.
C13_StrictlyDecreasingScore ==
    /\ C13_MatchWithinTolerance
    /\ \A c \in FibCalls, d \in FibCalls : \A e \in C13_Constants(c) :
           C13_BothMatch(c, d, e) /\ C13_Dev(c, e) < C13_Dev(d, e)
               => C13_ScoreOf(c, e) > C13_ScoreOf(d, e)

\* C13 (amended): a match is recorded only within 5% relative deviation, the score
\* is 1.0 at zero deviation and, being rounded to 4 decimals, never increases with
\* the relative deviation; it is strictly lower once the relative deviations differ
\* by 0.00001 (a thousandth of a percentage point) or more.
C13_RoundedScoreDecreasing ==
    /\ C13_MatchWithinTolerance
    /\ \A c \in FibCalls, d \in FibCalls : \A e \in C13_Constants(c) :
           C13_BothMatch(c, d, e) /\ C13_Dev(c, e) < C13_Dev(d, e)
               => /\ C13_ScoreOf(c, e) >= C13_ScoreOf(d, e)
                  /\ C13_Dev(d, e) - C13_Dev(c, e) >= (C13_Den(c, e) + 99999) \div 100000
                         => C13_ScoreOf(c, e) > C13_ScoreOf(d, e)

\* C13 witness: two ratios at different deviations from 1.0 with the same rounded
\* score, and a ratio beyond 5% that matched nothing
C13_RoundedTie ==
    /\ FibCalls = {1, 2}
    /\ C13_BothMatch(1, 2, 1000)
    /\ C13_Dev(1, 1000) < C13_Dev(2, 1000)
    /\ C13_ScoreOf(1, 1000) = C13_ScoreOf(2, 1000)

(***************************************************************************)
(* Properties of calculate_wave_5_targets (SpecTargets).                   *)
(***************************************************************************)
TargetsComputed == result.op = "calculate_wave_5_targets"

\* the price of the target with level 'equality', in 1/100
C14_EqualityPrice ==
    LET ts == result.value.targets
        k == CHOOSE k \in DOMAIN ts : ts[k].level = "equality"
    IN  ts[k].price

\* wave4_end + wave1_length, resp. wave4_end - wave1_length, in 1/price_den
C14_Projected ==
    IF IsUp(waves[1]) THEN waves[4].low + WaveLength(waves[1])
    ELSE waves[4].high - WaveLength(waves[1])

\* C14 (as claimed): the 'equality' target's price is wave4_end + wave1_length for an
\* upward impulse and wave4_end - wave1_length for a downward one.
C14_EqualityIsProjected ==
    TargetsComputed => price_den * C14_EqualityPrice = 100 * C14_Projected

\* C14 (amended): the 'equality' target's price is wave4_end + wave1_length, resp.
\* wave4_end - wave1_length, rounded to 2 decimals: the nearest 1/100, and the value
\* itself when it has no more than two decimals.
C14_EqualityIsRoundedProjected ==
    TargetsComputed =>
        /\ 2 * Abs(price_den * C14_EqualityPrice - 100 * C14_Projected) <= price_den
        /\ \E k \in DOMAIN result.value.targets : result.value.targets[k].level = "equality"

\* C14 witness: a downward impulse at three decimals whose equality target was rounded
C14_RoundedDownwardTarget ==
    /\ TargetsComputed
    /\ ~IsUp(waves[1])
    /\ price_den * C14_EqualityPrice # 100 * C14_Projected

(***************************************************************************)
(* Properties of the scorer on wave lists of given lengths (SpecShapes).   *)
(***************************************************************************)
\* an upward 5-wave list with the textbook ratios
C15_Textbook ==
    /\ Len(waves) = 5
    /\ IsUp(waves[1])
    /\ 1000 * WaveLength(waves[2]) = 618 * WaveLength(waves[1])
    /\ 1000 * WaveLength(waves[3]) = 1618 * WaveLength(waves[1])
    /\ 1000 * WaveLength(waves[4]) = 382 * WaveLength(waves[3])
    /\ WaveLength(waves[5]) = WaveLength(waves[1])

\* C15: an upward 5-wave list with the textbook ratios is scored valid, with
\* overall_probability at least 90 and category VERY HIGH, whatever the durations
\* of its waves.
C15_TextbookVeryHigh ==
    C15_Textbook /\ result.op = "score_impulse_pattern"
        => /\ ~result.value.raised
           /\ result.value.valid_pattern
           /\ result.value.overall_probability >= 9000
           /\ result.value.category = "VERY HIGH"

\* C15 witness: the textbook impulse scored with the poorest durations (wave 4 more
\* than six times wave 2, one wave very brief)
C15_TextbookPoorDurations ==
    /\ C15_Textbook
    /\ result.op = "score_impulse_pattern"
    /\ WaveDuration(waves[4]) > 6 * WaveDuration(waves[2])
    /\ result.value.structure_quality = 7000
    /\ result.value.overall_probability < 9300

\* the category of a reported overall_probability (in 1/100 percent)
C20_CategoryOf(p) ==
    IF p >= 9000 THEN "VERY HIGH"
    ELSE IF p >= 7500 THEN "HIGH"
    ELSE IF p >= 6000 THEN "MODERATE"
    ELSE IF p >= 5000 THEN "LOW"
    ELSE "VERY LOW"

\* C20 (as claimed): in every valid result the category is that of the reported
\* overall_probability: VERY HIGH from 90, HIGH from 75, MODERATE from 60, LOW from
\* 50, VERY LOW below.
C20_CategoryOfReported ==
    (result.op \in ScoreOps /\ ~result.value.raised /\ result.value.valid_pattern)
        => result.value.category = C20_CategoryOf(result.value.overall_probability)

(***************************************************************************)
(* Further properties of the scorer (SpecScore).                           *)
(***************************************************************************)
C16_Percent == 0..10000

\* C16: every result has overall_probability within [0, 100]; a valid one has its
\* three sub-scores within [0, 100] and overall_probability equal to
\* 40 + 0.30 x Fibonacci + 0.20 x guidelines + 0.10 x structure, rounded to 2
\* decimals.
C16_WeightedSum ==
    (result.op \in ScoreOps /\ ~result.value.raised) =>
        /\ result.value.overall_probability \in C16_Percent
        /\ result.value.valid_pattern =>
               /\ result.value.fibonacci_ratios \in C16_Percent
               /\ result.value.guidelines \in C16_Percent
               /\ result.value.structure_quality \in C16_Percent
               /\ 2 * Abs(10 * result.value.overall_probability
                          - (40000 + 3 * result.value.fibonacci_ratios
                             + 2 * result.value.guidelines
                             + result.value.structure_quality)) <= 10

\* C16 witness: a valid result whose Fibonacci, guideline and structure scores
\* are three different values, the Fibonacci score neither 0 nor 100
C16_ThreeDifferentScores ==
    /\ result.op \in ScoreOps
    /\ ~result.value.raised
    /\ result.value.valid_pattern
    /\ 0 < result.value.fibonacci_ratios
    /\ result.value.fibonacci_ratios < result.value.guidelines
    /\ result.value.guidelines < result.value.structure_quality

C18_Wave2Violation ==
    \E k \in DOMAIN result.value.rules_compliance.violations :
        result.value.rules_compliance.violations[k] = "Wave 2 retraced more than 100% of Wave 1"

\* C18 (as claimed): the wave-2 violation is reported if and only if wave 2 retraces
\* past wave 1's start: wave2.low strictly below wave1.low for an upward impulse,
\* wave2.high strictly above wave1.high for a downward one.
C18_ViolationIffPastStart ==
    (result.op = "score_impulse_pattern" /\ ~result.value.raised) =>
        (C18_Wave2Violation <=>
            IF IsUp(waves[1]) THEN waves[2].low < waves[1].low
            ELSE waves[2].high > waves[1].high)

\* C19 (as claimed): score_corrective_pattern returns an invalid result of
\* probability 0 exactly when wave B is longer than 1.40 x wave A or wave C shorter
\* than 0.50 x wave A, whatever wave A's direction.
C19_BothRulesAnyDirection ==
    (result.op = "score_corrective_pattern" /\ ~result.value.raised) =>
        LET broken == \/ 100 * WaveLength(waves[2]) > 140 * WaveLength(waves[1])
                      \/ 100 * WaveLength(waves[3]) < 50 * WaveLength(waves[1])
        IN  IF broken
            THEN ~result.value.valid_pattern /\ result.value.overall_probability = 0
            ELSE result.value.valid_pattern

(***************************************************************************)
(* Properties of get_risk_reward_ratio (SpecRisk).                         *)
(***************************************************************************)
\* C17: get_risk_reward_ratio returns |target - entry| / |entry - invalidation| when
\* entry and invalidation differ (2.5 for entry 50000, target 55000, invalidation
\* 48000) and 0.0 when they are equal.
C17_RewardOverRisk ==
    result.op = "get_risk_reward_ratio" =>
        LET a == result.args
            v == result.value
        IN  /\ v[2] > 0
            /\ a.entry_price # a.invalidation_price =>
                   v[1] * Abs(a.entry_price - a.invalidation_price)
                       = v[2] * Abs(a.target_price - a.entry_price)
            /\ a.entry_price = a.invalidation_price => v[1] = 0
            /\ (a.entry_price = 50000 /\ a.target_price = 55000
                /\ a.invalidation_price = 48000) => v = <<5, 2>>

\* C17 witness: the call with entry 50000, target 55000, invalidation 48000 was made
C17_ExampleCall ==
    /\ result.op = "get_risk_reward_ratio"
    /\ result.args = [entry_price |-> 50000, target_price |-> 55000,
                      invalidation_price |-> 48000]
    /\ 2 * result.value[1] = 5 * result.value[2]

(***************************************************************************)
(* Properties of the magnitudes of the targets (SpecTargets).              *)
(***************************************************************************)
MagnitudesComputed ==
    /\ result.op \in {"calculate_wave_5_targets", "calculate_wave_C_targets"}
    /\ result.args.current_price # None

\* target price minus current price, in 1/(100 * price_den)
C21_Distance(k) ==
    price_den * result.value.targets[k].price - 100 * result.args.current_price

\* the status of target k by the direction of the swing the targets are for
C21_StatusOf(k) ==
    IF result.value.direction = "upward" /\ C21_Distance(k) > 0 THEN "pending"
    ELSE IF result.value.direction = "downward" /\ C21_Distance(k) < 0 THEN "pending"
    ELSE IF 1000 * Abs(C21_Distance(k)) < 5 * 100 * result.args.current_price THEN "reached"
    ELSE "exceeded"

\* C21 (as claimed): every magnitude has the status 'pending' when its target lies ahead
\* of the current price in the swing direction, 'reached' when it is not ahead and within
\* 0.5% of the current price, 'exceeded' otherwise, and its distance is the target price
\* minus the current price.
C21_StatusBySwingDirection ==
    MagnitudesComputed =>
        \A k \in DOMAIN result.value.magnitudes :
            /\ result.value.magnitudes[k].status = C21_StatusOf(k)
            /\ price_den * result.value.magnitudes[k].distance = C21_Distance(k)

\* C22 (as claimed): the recommended target of calculate_wave_5_targets is the target of
\* level 'equality' (1.0 x wave 1 from the end of wave 4, weight 0.75).
C22_RecommendedIsEquality ==
    TargetsComputed =>
        /\ result.value.recommended_target.level = "equality"
        /\ result.value.recommended_target.probability = 75
        /\ result.value.recommended_target.price = C14_EqualityPrice

(***************************************************************************)
(* The least probability of a valid result (SpecShapes).                   *)
(***************************************************************************)
\* C29: every valid result of score_impulse_pattern or score_corrective_pattern has
\* overall_probability >= 52 (guidelines and structure scores are at least 40), so its
\* category is never 'VERY LOW'.
C29_ValidAtLeast52 ==
    (result.op \in ScoreOps /\ ~result.value.raised /\ result.value.valid_pattern = TRUE) =>
        /\ result.value.overall_probability >= 5200
        /\ result.value.guidelines >= 4000
        /\ result.value.structure_quality >= 4000
        /\ result.value.category # "VERY LOW"

\* C29 witness: a valid correction with no Fibonacci match and every guideline and
\* structure check at its lowest score, at exactly 52
C29_ValidAtExactly52 ==
    /\ result.op = "score_corrective_pattern"
    /\ ~result.value.raised
    /\ result.value.valid_pattern = TRUE
    /\ result.value.fibonacci_ratios = 0
    /\ result.value.guidelines = 4000
    /\ result.value.structure_quality = 4000
    /\ result.value.overall_probability = 5200

(***************************************************************************)
(* Properties of the report of analyze_segment_variations (SpecBands).     *)
(***************************************************************************)
SegmentsReported == result.op = "analyze_segment_variations" /\ result.value.found

\* the bounds of a band, in 1/100 percent: lo <= p < hi, and p <= 100 for the last
BandBounds(r) ==
    CASE r = "50-59%" -> <<5000, 6000>>
      [] r = "60-69%" -> <<6000, 7000>>
      [] r = "70-79%" -> <<7000, 8000>>
      [] r = "80-89%" -> <<8000, 9000>>
      [] r = "90-100%" -> <<9000, 10001>>

\* the bands that list the options of candidate k
BandsOf(k) ==
    LET dist == result.value.probability_distribution
    IN  {r \in DOMAIN dist :
            \E j \in DOMAIN dist[r].wave_options :
                dist[r].wave_options[j] = result.value.all_candidates[k].wave_options}

\* C23: in the report of analyze_segment_variations every reported candidate is in
\* exactly one band and its probability lies inside the band's bounds, whatever the
\* analyzer's and the call's min_probability; the counts of the bands sum to
\* total_candidates.
C23_BandsPartitionCandidates ==
    SegmentsReported =>
        LET dist == result.value.probability_distribution
            cs == result.value.all_candidates
        IN  /\ DOMAIN dist \subseteq {"50-59%", "60-69%", "70-79%", "80-89%", "90-100%"}
            /\ \A k \in DOMAIN cs :
                   /\ Cardinality(BandsOf(k)) = 1
                   /\ \A r \in BandsOf(k) : /\ BandBounds(r)[1] <= cs[k].probability
                                             /\ cs[k].probability < BandBounds(r)[2]
            /\ \A r \in DOMAIN dist :
                   /\ dist[r].count = Len(dist[r].wave_options)
                   /\ dist[r].count =
                          Cardinality({k \in DOMAIN cs :
                                          /\ BandBounds(r)[1] <= cs[k].probability
                                          /\ cs[k].probability < BandBounds(r)[2]})
            /\ result.value.total_candidates = Len(cs)
            /\ SumSeq([k \in 1..5 |->
                         LET r == <<"50-59%", "60-69%", "70-79%", "80-89%", "90-100%">>[k]
                         IN  IF r \in DOMAIN dist THEN dist[r].count ELSE 0])
                   = result.value.total_candidates

\* C23 witness: analyzer and call both with thresholds below 50, and a candidate
\* reported in the lowest band
C23_LowestBandReported ==
    /\ SegmentsReported
    /\ min_probability < 50
    /\ result.args.min_probability < 50
    /\ "50-59%" \in DOMAIN result.value.probability_distribution

(***************************************************************************)
(* Properties of the retained patterns and their labels (Spec).            *)
(***************************************************************************)
\* the shared length is at most half the length of each of the two patterns
C24_WithinHalfOfEach(retained) ==
    \A i, j \in DOMAIN retained :
        i # j =>
            /\ 2 * C3_Shared(retained[i], retained[j]) <= retained[i].end_idx - retained[i].start_idx
            /\ 2 * C3_Shared(retained[i], retained[j]) <= retained[j].end_idx - retained[j].start_idx

\* C24 (as claimed): under the highest_probability strategy, after any scan, the shared
\* index length of any two retained patterns is at most 50% of the length of each of them.
C24_NoSignificantOverlap ==
    Labelled("highest_probability") =>
        C24_WithinHalfOfEach(_filter_by_highest_probability(all_patterns))

\* label w was extracted from pattern p
C25_ExtractedFrom(w, p) ==
    /\ w.probability = p.probability
    /\ w.wave_type = p.type
    /\ \E k \in DOMAIN p.pattern : /\ p.pattern[k].label = w.label
                                  /\ p.pattern[k].idx_start = w.start_idx
                                  /\ p.pattern[k].idx_end = w.end_idx

\* C25 (as claimed): after label_all_waves, under every overlap strategy, every label's
\* parent_pattern_idx is the position in all_patterns of the pattern it was extracted
\* from, and its probability is that pattern's probability.
C25_ParentIndexesAllPatterns ==
    (overlap_strategy \in Strategies /\ returns # <<>>) =>
        \A k \in DOMAIN all_wave_labels :
            /\ all_wave_labels[k].parent_pattern_idx + 1 \in DOMAIN all_patterns
            /\ C25_ExtractedFrom(all_wave_labels[k],
                                 all_patterns[all_wave_labels[k].parent_pattern_idx + 1])

\* C26 (as claimed): every label carries as start_price the price at its start_idx and
\* as end_price the price at its end_idx, and to_dict reports direction 'down' for the
\* labels 2, 4, A, C and 'up' for the labels 1, 3, 5, B.
C26_PricesInWaveOrder ==
    (overlap_strategy \in Strategies /\ returns # <<>>) =>
        \A k \in DOMAIN all_wave_labels :
            /\ all_wave_labels[k].start_price = LowAt(all_wave_labels[k].start_idx)
            /\ all_wave_labels[k].end_price = LowAt(all_wave_labels[k].end_idx)
            /\ to_dict(all_wave_labels[k]).direction
                   = IF all_wave_labels[k].label \in {"2", "4", "A", "C"} THEN "down" ELSE "up"

\* C27 (as claimed): label_all_waves returns its summary without raising, whatever
\* the length of the series and the scan_step.
C27_NeverRaises ==
    \A k \in DOMAIN returns : ~returns[k].raised

(***************************************************************************)
(* Properties of the freqtrade integration (SpecStrategy).                 *)
(***************************************************************************)
\* the analysis is of a found pattern that ends inside the dataframe
C28_Usable(analysis) ==
    analysis.found /\ PatternIdxEnd(analysis.wave_pattern) < SeriesLen

\* the probability column holds the analysis' probability over the pattern's rows
C28_Written(column, analysis) ==
    /\ Len(column) = SeriesLen
    /\ \A i \in PatternIdxStart(analysis.wave_pattern)..PatternIdxEnd(analysis.wave_pattern) :
           column[i + 1] = analysis.probability

\* C28 (as claimed): when find_wave_with_targets reports a found pattern of probability
\* p that ends inside the dataframe, add_wave_indicators writes p into the probability
\* column over the pattern's rows, and populate_indicators of the strategies uses the
\* scanned pattern of highest probability in this way.
C28_FoundPatternIsUsed ==
    /\ result.op = "add_wave_indicators" =>
           (C28_Usable(result.analysis[1]) =>
                C28_Written(result.value.ew_probability, result.analysis[1]))
    /\ result.op = "EnhancedElliotWaveStrategy.populate_indicators" =>
           \A k \in DOMAIN result.analysis :
               (/\ C28_Usable(result.analysis[k])
                /\ \A j \in DOMAIN result.analysis :
                       result.analysis[j].found =>
                           \/ result.analysis[j].probability < result.analysis[k].probability
                           \/ result.analysis[j].probability = result.analysis[k].probability
                              /\ k <= j)
               => C28_Written(result.value.ew_probability, result.analysis[k])
    /\ result.op = "SimpleElliotWaveStrategy.populate_indicators" =>
           ((/\ SeriesLen >= 60
             /\ C28_Usable(result.analysis[1])
             /\ result.analysis[1].probability >= 100 * MIN_PROBABILITY)
            => C28_Written(result.value.ew_probability, result.analysis[1]))

\* the levels a call of the history turned on
C30_Triggered(c) == {i \in 1..3 : ~c.before[i] /\ c.after[i]}

\* C30: over the calls made for one trade each partial-exit level triggers a stake
\* reduction at most once, a call triggers at most one level, a returned adjustment
\* is never positive, and no adjustment is returned while current_profit <= 0
C30_PartialExitsOncePerLevel ==
    \A k \in 1..Len(adjustments) :
        LET c == adjustments[k]
        IN  /\ Cardinality(C30_Triggered(c)) <= 1
            /\ (c.returned # <<>>) <=> (C30_Triggered(c) # {})
            /\ c.returned # <<>> => c.returned[1] <= 0 /\ c.current_profit > 0
            /\ \A j \in 1..(k - 1) :
                   adjustments[j].trade_id = c.trade_id => C30_Triggered(adjustments[j]) \cap C30_Triggered(c) = {}
            /\ \A j \in 1..(k - 1), i \in 1..3 :
                   adjustments[j].trade_id = c.trade_id /\ adjustments[j].after[i] => c.before[i]

\* C30 witness: a trade had its stake reduced at level 1, then at level 2, and a later
\* call for it with a profit and both targets reached returned nothing
C30_BothLevelsThenNothing ==
    /\ Len(adjustments) = 3
    /\ \A k \in 1..3 : adjustments[k].trade_id = 1 /\ adjustments[k].current_profit > 0
    /\ \A k \in 1..3 : adjustments[k].current_rate = 125 /\ adjustments[k].dataframe = <<[ew_target_1 |-> 100, ew_target_2 |-> 120]>>
    /\ C30_Triggered(adjustments[1]) = {1} /\ adjustments[1].returned = <<-3300>>
    /\ C30_Triggered(adjustments[2]) = {2} /\ adjustments[2].returned = <<-3300>>
    /\ adjustments[3].returned = <<>>

====
